---- MODULE Spec2Model ----
(***************************************************************************)
(* Resilient scheduled-dispatch engine of the CRM services:                *)
(*   - core-api CircuitBreaker        (utils/circuit_breaker.py)           *)
(*   - whatsapp-gateway CircuitBreaker (utils/error_handler.py)            *)
(*   - feedback message dispatch       (services/feedback_scheduler.py,    *)
(*                                      tasks/feedback_tasks.py,           *)
(*                                      repositories/campaign_repository.py)*)
(*   - whatsapp-gateway RateLimiter    (middleware/rate_limiter.py) and    *)
(*     the sends it gates              (services/whatsapp_client.py)       *)
(*   - core-api send-time calculation and prayer-time resolution with its *)
(*     cache and breaker               (services/feedback_scheduler.py)    *)
(* The clock is in seconds; visit and send times are datetimes in minutes.  *)
(***************************************************************************)
EXTENDS Integers, Sequences, FiniteSets, TLC

VARIABLES
    now,          \* wall clock, time.time()
    cb,           \* the core CircuitBreaker instance (its fields)
    cb_inflight,  \* core call()s suspended in `await func(...)`
    cb_streak,    \* history: failures recorded in a row, no success between
    cb_opened_at, \* history: the time of the last _open_circuit()
    cb_rejected_at, \* history: the time of the last rejected call(), 0 if none
    gw,           \* the gateway CircuitBreaker instance (its fields)
    gw_inflight,  \* gateway call()s suspended in `await func(...)`
    gw_rejects,   \* history: number of gateway call()s rejected
    gw_non2xx,    \* history: text sends in a row that ended in a non-2xx response
    msg,          \* campaign_messages rows: status, scheduled_send_time, task_id
    rcp_status,   \* campaign_recipients.status of each message's recipient
    campaign_status, \* feedback_campaigns.status of the campaign
    queue,        \* Celery tasks feedback_tasks.send_feedback_message waiting
    revoked,      \* task ids revoked through celery_app.control.revoke
    next_task,    \* the next task id the broker hands out
    worker,       \* each worker: where it is in _send_feedback_message_async
    sw_todo,      \* sweeper: rows of messages.data not yet looped over
    c_running,    \* cancel_campaign is between its query and its last update
    c_todo,       \* cancel_campaign: rows of its query not yet looped over
    sends,        \* history: POSTs to the gateway's send API, per message
    sched,        \* schedule_campaign: where it is, its schedule_params, its recipients
    rcp_todo,     \* schedule_campaign: recipients not yet looped over
    scheduled_jobs, \* schedule_campaign: the list it returns
    c_seen,       \* history: messages scheduled or queued when cancel_campaign's query ran
    r_returned,   \* what the last reschedule_message returned
    rl_store,     \* the Redis counters of the RateLimiter: key -> count, expiry
    rl_result,    \* what the last check_rate_limit returned
    sender,       \* each gateway process: where it is in send_*_message
    rl_sent,      \* history: POSTs to the WhatsApp API in the current bucket
    rl_errors,    \* history: number of checks in which the Redis pipeline raised
    rl_sub,       \* the part of the current second that has passed, in 1/Resolution s
    prayer_cache, \* FeedbackScheduler._prayer_cache: date -> data, expires
    rv,           \* the _calculate_send_time call suspended in the API request
    calc,         \* the last send time calculated, with the answer it used
    api_status,   \* history: how the last request to the prayer API ended
    cache_got,    \* history: the last _get_cached_prayer_times: key, entry found, returned
    reset_returned, \* what the last circuit_registry.reset_breaker returned
    tpl_inflight, \* send_template_message calls suspended in their POST
    msg_type,     \* message_type of the message given to send_message_task
    task_queue,   \* send_message_task messages waiting, per request.retries
    run,          \* the send_message_task running: where send_with_retry is
    swr_result,   \* what the last send_with_retry returned
    swr_sends,    \* history: sends made by the running send_with_retry call
    swr_delays,   \* history: the delays it has slept, in order
    task_runs,    \* history: executions of send_message_task begun
    rwb,          \* the retry_with_backoff call: where it is, its attempt
    rwb_calls,    \* history: invocations of its operation
    checker,      \* each gateway worker: where it is in check_rate_limit
    rl_admitted,  \* history: per key, the checks that returned allowed = true
    rl_observed,  \* history: the (key, count) pairs the pipelines returned
    core_zsets,   \* core-api RateLimiter: the sorted sets rate_limit:... and burst_limit:...
    core_result,  \* what the last core-api check_rate_limit returned, with its counts
    core_admitted, \* history: the calls the core-api limiter allowed, per second
    core_calls,   \* history: number of core-api check_rate_limit calls
    core_errors,  \* history: number of core-api pipelines that raised RedisError
    ai_client,    \* ai-processor RateLimitMiddleware.clients[client_id]
    ai_result,    \* what the last ai-processor check_rate_limit did
    ai_calls      \* history: number of ai-processor check_rate_limit calls

coreVars == <<cb, cb_inflight, cb_streak, cb_opened_at, cb_rejected_at>>
gatewayVars == <<gw, gw_inflight, gw_rejects, gw_non2xx>>
breakerVars == <<coreVars, gatewayVars>>
storeVars == <<msg, rcp_status, campaign_status>>
brokerVars == <<queue, revoked, next_task>>
apiVars == <<sched, rcp_todo, scheduled_jobs, c_seen, r_returned>>
dispatchVars == <<storeVars, brokerVars, worker, sw_todo, c_running, c_todo, sends, apiVars>>
limiterVars == <<rl_store, rl_result, sender, rl_sent, rl_errors, rl_sub>>
resolverVars == <<prayer_cache, rv, calc, api_status, cache_got>>
registryVars == <<reset_returned>>
clientVars == <<tpl_inflight>>
retryVars == <<msg_type, task_queue, run, swr_result, swr_sends, swr_delays, task_runs,
               rwb, rwb_calls>>
admitVars == <<checker, rl_admitted, rl_observed>>
coreLimVars == <<core_zsets, core_result, core_admitted, core_calls, core_errors>>
aiVars == <<ai_client, ai_result, ai_calls>>
admissionVars == <<admitVars, coreLimVars, aiVars>>
extraVars == <<registryVars, clientVars, retryVars, admissionVars>>
otherVars == <<limiterVars, resolverVars, extraVars>>
vars == <<now, breakerVars, dispatchVars, otherVars>>

(***************************************************************************)
(* Bounds of the exploration                                               *)
(***************************************************************************)
TickStep == 15      \* the clock advances in steps of this many seconds
MaxTime == 105      \* the clock stops here
MaxCalls == 6       \* call()s made on the core breaker
MaxInflight == 2    \* overlapping call()s on the core breaker
MaxGwInflight == 1  \* overlapping call()s on the gateway breaker
MaxGwRejects == 1   \* call()s the gateway breaker rejects
MaxNon2xx == 5      \* text sends in a row that end in a non-2xx response
MaxMsgs == 1        \* recipients (one message each) of the campaign
MaxTasks == 3       \* tasks the broker accepts
DispatchStep == 300 \* the dispatch clock advances in steps of this many seconds
MaxDispatchTime == 700 \* the dispatch clock stops here
business_rate_limit == 1 \* RateLimiter(business_rate_limit=...), 80 by default
user_rate_limit == 2     \* RateLimiter(user_rate_limit=...), 1000 by default
MaxCount == 3       \* a counter of the limiter is not incremented beyond this
MaxLimiterTime == 17 \* the limiter's clock stops here
MaxStoreErrors == 1 \* checks in which the Redis pipeline raises
CoreStep == 100     \* the core-api limiter's clock advances in steps of this many seconds
MaxCoreTime == 320  \* the core-api limiter's clock stops here
MaxCoreCalls == 7   \* calls of one client to the upload endpoint
AiStep == 20        \* the ai-processor limiter's clock advances in steps of this many seconds
MaxAiTime == 155    \* the ai-processor limiter's clock stops here
MaxAiCalls == 14    \* requests of one client to the ai-processor
MaxAdmitTime == 16  \* the workers begin their concurrent checks up to this time
Resolution == 2     \* the limiter's clock is read in steps of 1/Resolution second
MaxBurstTime == 75  \* the resolver's clock advances by `timeout` up to here
MaxResolverTime == 3700 \* the resolver's clock stops here
MaxTplInflight == 1 \* overlapping send_template_message calls
MaxCacheDate == 102 \* the dates of proposed times cached are 0 .. this

Max(a, b) == IF a >= b THEN a ELSE b

(***************************************************************************)
(* core-api CircuitBreaker, configured as CommonConfigs.EXTERNAL_API       *)
(***************************************************************************)
failure_threshold == 3
success_threshold == 2
timeout == 30

CircuitBreaker ==
    [state |-> "closed", failure_count |-> 0, success_count |-> 0,
     next_attempt |-> 0, total_requests |-> 0, total_failures |-> 0,
     total_successes |-> 0, total_rejected |-> 0]

\* (mutant) _open_circuit with the timeout forgotten
_open_circuit_no_timeout(b, t) ==
    [b EXCEPT !.state = "open", !.success_count = 0, !.next_attempt = t]

\* (mutant) _open_circuit leaves success_count as it is
_open_circuit_keeps_successes(b, t) ==
    [b EXCEPT !.state = "open", !.next_attempt = t + timeout]

_open_circuit(b, t) ==
    [b EXCEPT !.state = "open", !.success_count = 0, !.next_attempt = t + timeout]

\* (mutant) closing the circuit starts the statistics afresh
_close_circuit_clears_totals(b) ==
    [b EXCEPT !.state = "closed", !.failure_count = 0, !.success_count = 0,
              !.total_requests = 0, !.total_successes = 0, !.total_failures = 0,
              !.total_rejected = 0]

_close_circuit(b) ==
    [b EXCEPT !.state = "closed", !.failure_count = 0, !.success_count = 0]

\* (mutant) the failure threshold compared with > instead of >=
ReachedFailureThreshold_gt(b) == b.failure_count > failure_threshold

ReachedFailureThreshold(b) == b.failure_count >= failure_threshold

\* (mutant) the success threshold compared with > instead of >=
ReachedSuccessThreshold_gt(b) == b.success_count > success_threshold

ReachedSuccessThreshold(b) == b.success_count >= success_threshold

\* (mutant) a success while CLOSED zeroes the failure counter
_record_success_zeroes(b) ==
    LET b1 == [b EXCEPT !.total_successes = @ + 1] IN
    IF b.state = "half_open"
    THEN LET b2 == [b1 EXCEPT !.success_count = @ + 1] IN
         IF ReachedSuccessThreshold(b2) THEN _close_circuit(b2) ELSE b2
    ELSE IF b.state = "closed"
    THEN [b1 EXCEPT !.failure_count = 0]
    ELSE b1

_record_success(b) ==
    LET b1 == [b EXCEPT !.total_successes = @ + 1] IN
    IF b.state = "half_open"
    THEN LET b2 == [b1 EXCEPT !.success_count = @ + 1] IN
         IF ReachedSuccessThreshold(b2) THEN _close_circuit(b2) ELSE b2
    ELSE IF b.state = "closed"
    THEN [b1 EXCEPT !.failure_count = Max(0, @ - 1)]
    ELSE b1

\* (mutant) a failure in HALF_OPEN only counts, it does not reopen
_record_failure_ignores_half_open(b, t) ==
    LET b1 == [b EXCEPT !.total_failures = @ + 1, !.failure_count = @ + 1] IN
    IF b.state = "closed" /\ ReachedFailureThreshold(b1) THEN _open_circuit(b1, t) ELSE b1

_record_failure(b, t) ==
    LET b1 == [b EXCEPT !.total_failures = @ + 1, !.failure_count = @ + 1] IN
    IF b.state = "half_open"
    THEN _open_circuit(b1, t)
    ELSE IF b.state = "closed"
    THEN IF ReachedFailureThreshold(b1) THEN _open_circuit(b1, t) ELSE b1
    ELSE b1

\* _can_execute: the value it returns ...
\* (mutant) OPEN never lets a call through
_can_execute_never_probes(b, t) ==
    \/ b.state = "closed"
    \/ b.state = "half_open"

_can_execute(b, t) ==
    \/ b.state = "closed"
    \/ b.state = "open" /\ t >= b.next_attempt
    \/ b.state = "half_open"

\* ... and the state it leaves behind
_can_execute_effect(b, t) ==
    IF b.state = "open" /\ t >= b.next_attempt
    THEN [b EXCEPT !.state = "half_open"]
    ELSE b

\* (mutant) a rejected call is recorded as a failure
call_rejected_counts_failure(b, t) ==
    [_record_failure(b, t) EXCEPT !.total_rejected = @ + 1]

\* call(), the branch that raises CircuitBreakerException
call_rejected(b, t) == [b EXCEPT !.total_rejected = @ + 1]

\* (mutant) reset() zeroes the counters and leaves the state as it is
reset_counters_only(b) ==
    [b EXCEPT !.failure_count = 0, !.success_count = 0, !.next_attempt = 0]

reset(b) ==
    [b EXCEPT !.state = "closed", !.failure_count = 0, !.success_count = 0,
              !.next_attempt = 0]

\* circuit_registry._breakers after FeedbackScheduler.__init__: the names
\* that have a breaker (one, the breaker above)
_breakers == {"prayer_time_api"}
\* the names reset_breaker is called with
BreakerNames == {"prayer_time_api", "whatsapp_api"}

(***************************************************************************)
(* whatsapp-gateway CircuitBreaker, as webhook_circuit_breaker             *)
(***************************************************************************)
gw_failure_threshold == 5
recovery_timeout == 60
None == 0     \* last_failure_time = None; time.time() is never 0

GatewayBreaker == [state |-> "CLOSED", failure_count |-> 0, last_failure_time |-> None]

gw_recovered(g, t) ==
    g.last_failure_time # None /\ (t - g.last_failure_time) > recovery_timeout

gw_can_execute(g, t) == g.state # "OPEN" \/ gw_recovered(g, t)

gw_enter(g, t) ==
    IF g.state = "OPEN" /\ gw_recovered(g, t) THEN [g EXCEPT !.state = "HALF_OPEN"] ELSE g

\* (mutant) the rejection is raised inside the try block and counted
gw_rejected_counts_failure(g, t) ==
    [g EXCEPT !.failure_count = @ + 1, !.last_failure_time = t]

gw_rejected(g, t) == g

gw_success(g) ==
    IF g.state = "HALF_OPEN" THEN [g EXCEPT !.state = "CLOSED", !.failure_count = 0] ELSE g

gw_failure(g, t) ==
    LET g1 == [g EXCEPT !.failure_count = @ + 1, !.last_failure_time = t] IN
    IF g1.failure_count >= gw_failure_threshold THEN [g1 EXCEPT !.state = "OPEN"] ELSE g1

(***************************************************************************)
(* Feedback message dispatch (core-api): the rows of the store, the Celery *)
(* broker, the worker task send_feedback_message, the periodic sweeper     *)
(* send_scheduled_feedback, and FeedbackScheduler's schedule / cancel /    *)
(* reschedule.  Each await of the code on the store or on the gateway ends *)
(* a step, so other processes run between a handler's read and its write.  *)
(***************************************************************************)
Msgs == 1..MaxMsgs
Workers == {"w1"}       \* the Celery worker processes
NoTask == 0
sweep_horizon == 300      \* timedelta(minutes=5)

NoRow == [status |-> "none", send_time |-> 0, task_id |-> NoTask]
Idle == [pc |-> "idle", task |-> NoTask, m |-> 0]
Task(id, m, eta) == [id |-> id, m |-> m, eta |-> eta]

\* (mutant) the claim check lets every status but cancelled through
Sendable_unless_cancelled(status) == status # "cancelled"

\* _send_feedback_message_async: `if message['status'] != 'scheduled': return`
Sendable(status) == status = "scheduled"

\* update_message_status: the row is updated by id, whatever its status is
update_message_status(rows, m, status) == [rows EXCEPT ![m].status = status]

\* the sweeper's query: status = 'scheduled', scheduled_send_time <= now + 5 min
DueScheduled(rows, t) ==
    {m \in Msgs : rows[m].status = "scheduled" /\ rows[m].send_time <= t + sweep_horizon}

\* get_campaign_messages(campaign_id, status='scheduled')
ScheduledRows(rows) == {m \in Msgs : rows[m].status = "scheduled"}

\* send times the scheduler may compute at time t
SendTimes(t) == {t, t + DispatchStep}

\* schedule_params['start_time'] and ['end_time']: none, or one clock step
\* after the campaign was loaded
WindowStarts == {None, TickStep + DispatchStep}
WindowEnds == {None, TickStep + DispatchStep}

\* schedule_campaign: `if schedule_params.get('end_time') and send_time > ...`
outside_window(send_time, end_time) == end_time # None /\ send_time > end_time

NoSchedule == [pc |-> "idle", start_time |-> None, end_time |-> None, recipients |-> {}]
Recipient(m, send_time) == [m |-> m, send_time |-> send_time]
\* an entry of scheduled_jobs
Job(m, task_id, t) == [message_id |-> m, task_id |-> task_id, scheduled_time |-> t]

(***************************************************************************)
(* whatsapp-gateway RateLimiter: fixed-window counters in Redis, one key   *)
(* per traffic class, identifier and window bucket, and the two send       *)
(* methods of WhatsAppClient that call wait_if_needed before their POST.   *)
(***************************************************************************)
window_seconds == 1
Identifiers == {"r1"}         \* phone numbers / client hosts
Senders == {"p1"}             \* the gateway process
Classes == {"business", "user"}

\* check_rate_limit: message_type = "user" if is_user_initiated else "business"
message_type(is_user_initiated) == IF is_user_initiated THEN "user" ELSE "business"

\* _get_key: rate_limit:{message_type}:{identifier}:{int(time / window_seconds)}
_get_key(identifier, mtype, t) == <<mtype, identifier, t \div window_seconds>>

\* (mutant) both traffic classes are held against the business limit
_get_limit_business_only(is_user_initiated) == business_rate_limit

\* _get_limit
_get_limit(is_user_initiated) ==
    IF is_user_initiated THEN user_rate_limit ELSE business_rate_limit

\* GET of a key, 0 when the key does not exist
Count(store, key) == IF key \in DOMAIN store THEN store[key].count ELSE 0

\* pipeline.incr(key); pipeline.expire(key, window_seconds * 2)
incr_expire(store, key, t) ==
    [k \in DOMAIN store \cup {key} |->
        IF k = key THEN [count |-> Count(store, key) + 1, expire_at |-> t + window_seconds * 2]
                   ELSE store[k]]

\* Redis drops the keys whose TTL has run out
expire_keys(store, t) ==
    [k \in {x \in DOMAIN store : store[x].expire_at > t} |-> store[k]]

\* (mutant) the check denies only from the second request over the limit on
Exceeded_late(current_count, limit) == current_count > limit + 1

\* check_rate_limit: `if current_count > limit`
Exceeded(current_count, limit) == current_count > limit

\* check_rate_limit with the store answering: (allowed, current_count)
check_rate_limit(store, identifier, is_user_initiated, t) ==
    LET current_count == Count(store, _get_key(identifier, message_type(is_user_initiated), t)) + 1
    IN  [id |-> identifier, cls |-> message_type(is_user_initiated),
         allowed |-> ~ Exceeded(current_count, _get_limit(is_user_initiated)),
         count |-> current_count]

\* (mutant) a check whose pipeline raises is denied
check_rate_limit_error_denies(identifier, is_user_initiated) ==
    [id |-> identifier, cls |-> message_type(is_user_initiated), allowed |-> FALSE, count |-> None]

\* check_rate_limit when the pipeline raises: (True, None)
check_rate_limit_error(identifier, is_user_initiated) ==
    [id |-> identifier, cls |-> message_type(is_user_initiated), allowed |-> TRUE, count |-> None]

\* the worker processes of the gateway that share the Redis store
Checkers == {"w1", "w2"}
CheckerIdle == [pc |-> "idle", id |-> "", cls |-> "", key |-> None, count |-> None]

\* the allowed results counted for a key: those of checks whose pipeline
\* answered, and those of checks whose pipeline raised
Admitted(admitted, key) ==
    IF key \in DOMAIN admitted THEN admitted[key] ELSE [counted |-> 0, uncounted |-> 0]

NoResult == [id |-> "", cls |-> "", allowed |-> TRUE, count |-> None]
SenderIdle == [pc |-> "idle", id |-> "", cls |-> "", wake |-> 0]

(***************************************************************************)
(* core-api RateLimiter: per endpoint pattern and client a sorted set of   *)
(* request times for the main window and one for the burst window.  The    *)
(* pattern modelled is /api/feedback-campaigns/upload, with one client.    *)
(***************************************************************************)
requests == 5
window == 3600
burst == 2
burst_window == 300

\* pipe.zremrangebyscore(key, 0, current_time - window); the members are
\* the request times
zremrangebyscore(zset, max_score) == {x \in zset : x > max_score}

\* pipe.zadd(key, {str(current_time): current_time})
zadd(zset, current_time) == zset \cup {current_time}

\* _check_window, the pipeline answering: the sorted set it leaves ...
_check_window_effect(zset, win, current_time) ==
    zadd(zremrangebyscore(zset, current_time - win), current_time)

\* ... and results[2], the count from zcard
_check_window(zset, win, current_time) ==
    Cardinality(_check_window_effect(zset, win, current_time))

\* check_rate_limit: None, or the error info with its 'error' text
CoreResult(error, main_count, burst_count, raised) ==
    [error |-> error, main_count |-> main_count, burst_count |-> burst_count,
     raised |-> raised]

\* check_rate_limit returning None: the request is allowed
NoError == ""
\* the burst window is not looked at when the main window denies
Unchecked == -1

NoCoreResult == CoreResult(NoError, Unchecked, Unchecked, {})

\* the calls allowed at second t
AdmittedAt(admitted, t) == IF t \in DOMAIN admitted THEN admitted[t] ELSE 0

(***************************************************************************)
(* ai-processor RateLimitMiddleware: one in-process record per client,     *)
(* {requests, window_start, blocked_until}, held against the limit of the  *)
(* endpoint requested.  One client is modelled.                            *)
(***************************************************************************)
AiPaths == {"/api/models", "/api/generate-response"}

\* self.rate_limits[path]["requests"]
max_requests(path) == IF path = "/api/models" THEN 10 ELSE 20

\* self.rate_limits[path]["window"]
ai_window == 60

\* "Block for at least 1 minute"
min_block == 60

\* the client has no record yet; the defaultdict makes one on first access
NoClient == [requests |-> 0, window_start |-> None, blocked_until |-> 0]

\* self.clients[client_id] at time t
client_data(client, t) ==
    IF client.window_start = None
    THEN [requests |-> 0, window_start |-> t, blocked_until |-> 0]
    ELSE client

\* `if current_time - client_data["window_start"] >= window_seconds`: reset
reset_window(c, t) ==
    IF t - c.window_start >= ai_window
    THEN [requests |-> 0, window_start |-> t, blocked_until |-> 0]
    ELSE c

\* (mutant) the block lasts for the rest of the window only
block_time_window_only(window_remaining) == window_remaining

\* block_time = max(window_remaining, 60)
block_time(window_remaining) == Max(window_remaining, min_block)

\* what one check leaves behind: admitted or 429, its Retry-After, and the
\* blocked_until it found
AiResult(path, admitted, retry_after, found_block) ==
    [path |-> path, admitted |-> admitted, retry_after |-> retry_after,
     found_block |-> found_block]

NoAiResult == AiResult("", TRUE, 0, 0)

(***************************************************************************)
(* core-api FeedbackScheduler: _calculate_send_time and the prayer-time    *)
(* resolution _check_prayer_time_conflict with its cache, its breaker      *)
(* (prayer_api_breaker, EXTERNAL_API preset) and its fallback table.       *)
(* A datetime is a number of minutes since midnight of day 0.              *)
(***************************************************************************)
MinutesPerHour == 60
HoursPerDay == 24
MinutesPerDay == MinutesPerHour * HoursPerDay
base_delay_hours == 3       \* timedelta(hours=3)
min_delay_hours == 2
max_delay_hours == 4
buffer_minutes == 30        \* timedelta(minutes=30) after prayer_end_time
_cache_ttl == 3600
morning_hour == 6           \* safe_hour = 6
late_hour == 19             \* hour >= 19
prayer_hours == {5, 12, 15, 18, 19}

Date(t) == t \div MinutesPerDay                      \* datetime.date()
Hour(t) == (t % MinutesPerDay) \div MinutesPerHour   \* datetime.hour
hours(n) == n * MinutesPerHour                       \* timedelta(hours=n)

\* visit timestamps of the recipients: 09:00, 14:30, 15:15, 17:00, 21:30
Visits == {540, 870, 915, 1020, 1290}
\* schedule_params['start_time']: none, or 18:30
StartTimes == {None, 1110}
\* the prayer windows the API knows, as minutes of the day: 12:00-13:00 and
\* 17:15-17:45, every day
PrayerWindows == {[start |-> 720, end |-> 780], [start |-> 1035, end |-> 1065]}

InWindow(t, w) == w.start <= t % MinutesPerDay /\ t % MinutesPerDay <= w.end

\* _fetch_prayer_times, status 200: the API's answer for the timestamp
api_data(t) ==
    IF \E w \in PrayerWindows : InWindow(t, w)
    THEN LET w == CHOOSE x \in PrayerWindows : InWindow(t, x) IN
         [ok |-> TRUE, is_prayer_time |-> TRUE,
          prayer_end_time |-> Date(t) * MinutesPerDay + w.end]
    ELSE [ok |-> TRUE, is_prayer_time |-> FALSE, prayer_end_time |-> None]

\* _fetch_prayer_times, any other status: None
NoData == [ok |-> FALSE, is_prayer_time |-> FALSE, prayer_end_time |-> None]

Answer(is_prayer_time, next_available_time, source) ==
    [is_prayer_time |-> is_prayer_time, next_available_time |-> next_available_time,
     source |-> source]

\* (mutant) the buffer after the end of the prayer is left out
answer_without_buffer(proposed_time, data, source) ==
    IF data.ok /\ data.is_prayer_time
    THEN Answer(TRUE, data.prayer_end_time, source)
    ELSE Answer(FALSE, proposed_time, source)

\* _check_prayer_time_conflict after the fetch, and
\* _check_prayer_conflict_from_cache: the answer made of the API's data
answer_from_data(proposed_time, data, source) ==
    IF data.ok /\ data.is_prayer_time
    THEN Answer(TRUE, data.prayer_end_time + buffer_minutes, source)
    ELSE Answer(FALSE, proposed_time, source)

\* (mutant) the fallback never reports a prayer time
_fallback_keeps_proposed(proposed_time) == Answer(FALSE, proposed_time, "fallback")

\* (mutant) the fallback moves to the start of the same hour
safe_hour_same(hour) == hour

\* _fallback_prayer_check: `safe_hour = hour + 1`, 6 when that is 24 or more
safe_hour(hour) == IF hour + 1 >= HoursPerDay THEN morning_hour ELSE hour + 1

\* _fallback_prayer_check
_fallback_prayer_check(proposed_time) ==
    LET hour == Hour(proposed_time)
        replaced == Date(proposed_time) * MinutesPerDay + safe_hour(hour) * MinutesPerHour
        next_available == IF safe_hour(hour) = morning_hour /\ hour >= late_hour
                          THEN replaced + MinutesPerDay ELSE replaced
    IN  IF hour \in prayer_hours
        THEN Answer(TRUE, next_available, "fallback")
        ELSE Answer(FALSE, proposed_time, "fallback")

\* cache_key = f"{location}_{proposed_time.date().isoformat()}", location 'Riyadh'
cache_key(proposed_time) == Date(proposed_time)

\* _get_cached_prayer_times: the data of an unexpired entry, else None ...
_get_cached_prayer_times(cache, key, t) ==
    IF key \in DOMAIN cache /\ cache[key].expires > t THEN cache[key].data ELSE NoData

\* ... and the cache it leaves: an expired entry is deleted
_get_cached_effect(cache, key, t) ==
    IF key \in DOMAIN cache /\ ~ (cache[key].expires > t)
    THEN [k \in DOMAIN cache \ {key} |-> cache[k]]
    ELSE cache

\* what one lookup leaves behind: the key, the expiry of the entry found
\* (None when there is none), and whether its data was returned
Lookup(cache, key, t) ==
    [key |-> key,
     expires |-> IF key \in DOMAIN cache THEN cache[key].expires ELSE None,
     returned |-> key \in DOMAIN cache /\ cache[key].expires > t]

NoLookup == [key |-> None, expires |-> None, returned |-> FALSE]

\* `if len(self._prayer_cache) > 100`
cache_limit == 100

\* (mutant) the entry that expires last is taken for the oldest
newest_key(cache) ==
    CHOOSE k \in DOMAIN cache :
       \A j \in DOMAIN cache :
          \/ cache[k].expires > cache[j].expires
          \/ cache[k].expires = cache[j].expires /\ k >= j

\* min(self._prayer_cache.keys(), key=lambda k: ...['expires']): the first
\* key, in the order of the dict, among those with the least expiry (new
\* dates are cached in ascending order, so that is the least such key)
oldest_key(cache) ==
    CHOOSE k \in DOMAIN cache :
       \A j \in DOMAIN cache :
          \/ cache[k].expires < cache[j].expires
          \/ cache[k].expires = cache[j].expires /\ k <= j

\* _cache_prayer_times: the entry is set, and when that leaves more than 100
\* entries the one with the least expiry is deleted
_cache_prayer_times(cache, key, data, t) ==
    LET set == [k \in DOMAIN cache \cup {key} |->
                   IF k = key THEN [data |-> data, expires |-> t + _cache_ttl]
                              ELSE cache[k]]
    IN  IF Cardinality(DOMAIN set) > cache_limit
        THEN [k \in DOMAIN set \ {oldest_key(set)} |-> set[k]]
        ELSE set

\* the dates whose entry is looked up, and those cached again while cached
CacheDates == 0..MaxCacheDate
LookupDates == {0, 1}
RepeatDates == {0}

\* the first date later than every date cached
NextDate(cache) ==
    IF DOMAIN cache = {} THEN 0
    ELSE 1 + (CHOOSE k \in DOMAIN cache : \A j \in DOMAIN cache : j <= k)

\* the data cached for a date: the API's answer for 12:00 of that date
DataOf(d) == api_data(d * MinutesPerDay + hours(12))

\* (mutant) the restricted-window push is not held to the ceiling
clamp_without_ceiling(t, min_time, max_time) == IF t < min_time THEN min_time ELSE t

\* _calculate_send_time: `if base_send_time < min_time ... elif > max_time`
clamp(t, min_time, max_time) ==
    IF t < min_time THEN min_time ELSE IF t > max_time THEN max_time ELSE t

\* _calculate_send_time: the base send time after the prayer check
adjusted(visit_timestamp, prayer_check) ==
    IF prayer_check.is_prayer_time
    THEN prayer_check.next_available_time
    ELSE visit_timestamp + hours(base_delay_hours)

\* _calculate_send_time, after _check_prayer_time_conflict has answered
_calculate_send_time(visit_timestamp, prayer_check) ==
    clamp(adjusted(visit_timestamp, prayer_check),
          visit_timestamp + hours(min_delay_hours),
          visit_timestamp + hours(max_delay_hours))

\* (mutant) the campaign's start_time is not looked at
window_start_ignored(send_time, start_time) == send_time

\* schedule_campaign: the send time raised to the campaign's start_time
window_start(send_time, start_time) ==
    IF start_time # None /\ send_time < start_time THEN start_time ELSE send_time

\* what one calculation leaves behind
Calc(visit, prayer_check, start_time, requested) ==
    [visit |-> visit, answer |-> prayer_check,
     send_time |-> _calculate_send_time(visit, prayer_check),
     persisted |-> window_start(_calculate_send_time(visit, prayer_check), start_time),
     requested |-> requested]

NoCalc == [visit |-> None, answer |-> Answer(FALSE, None, ""), send_time |-> None,
           persisted |-> None, requested |-> FALSE]
NoCall == [pc |-> "idle", visit |-> None, start_time |-> None]

(***************************************************************************)
(* whatsapp-gateway retries: MessageSender.send_with_retry, the Celery     *)
(* task send_message_task around it, and ErrorHandler.retry_with_backoff.  *)
(* Task.retry is Celery's: with request.retries + 1 within max_retries it  *)
(* sends the task again with that count and raises Retry, beyond it raises *)
(* MaxRetriesExceededError and sends nothing.                              *)
(***************************************************************************)
max_retries == 3            \* MessageSender.max_retries
retry_delay == 1            \* MessageSender.retry_delay
task_max_retries == 3       \* @celery_app.task(bind=True, max_retries=3)
max_attempts == 3           \* ErrorHandler.max_attempts
backoff == 2                \* 2 ** retries

NoType == ""
MessageTypes == {"text", "template", "sms"}
\* what one send_*_message call does: a result with success, a result
\* without, or (its arguments being unusable) an exception in send_with_retry
Outcomes == {"success", "failure", "raised"}
NoRun == [pc |-> "idle", request_retries |-> 0, retries |-> 0]

\* send_with_retry: neither "text" nor "template"
Unsupported(mtype) == mtype \notin {"text", "template"}

\* (mutant) one retry more than max_retries
MayRetry_once_more(retries) == retries <= max_retries

\* send_with_retry: `if retries < self.max_retries`
MayRetry(retries) == retries < max_retries

\* send_with_retry: delay = self.retry_delay * (2 ** retries)
delay(retries) == retry_delay * (backoff ^ retries)

\* Task.retry called in the execution with request.retries = n
retry(q, n) == IF n + 1 > task_max_retries THEN q ELSE [q EXCEPT ![n + 1] = @ + 1]

\* send_message_task once send_with_retry has returned: a result without
\* success and without max_retries_exceeded calls self.retry inside the try
\* block; what that raises is an Exception, so `except Exception` calls
\* self.retry once more
after_send_with_retry(q, n, result) ==
    IF result = "failure" THEN retry(retry(q, n), n) ELSE q

\* retry_with_backoff: `if attempt == self.max_attempts - 1: raise`
LastAttempt(attempt) == attempt = max_attempts - 1

(***************************************************************************)
(* Initial state: both breakers as constructed, an active campaign whose   *)
(* recipients are loaded and not yet scheduled                             *)
(***************************************************************************)
Init ==
    /\ now = TickStep
    /\ cb = CircuitBreaker
    /\ cb_inflight = 0
    /\ cb_streak = 0
    /\ cb_opened_at = 0
    /\ cb_rejected_at = 0
    /\ gw = GatewayBreaker
    /\ gw_inflight = 0
    /\ gw_rejects = 0
    /\ gw_non2xx = 0
    /\ msg = [m \in Msgs |-> NoRow]
    /\ rcp_status = [m \in Msgs |-> "pending"]
    /\ campaign_status = "active"
    /\ queue = {}
    /\ revoked = {}
    /\ next_task = 1
    /\ worker = [w \in Workers |-> Idle]
    /\ sw_todo = {}
    /\ c_running = FALSE
    /\ c_todo = {}
    /\ sends = [m \in Msgs |-> 0]
    /\ sched = NoSchedule
    /\ rcp_todo = {}
    /\ scheduled_jobs = {}
    /\ c_seen = {}
    /\ r_returned = "none"
    /\ rl_store = <<>>
    /\ rl_result = NoResult
    /\ sender = [p \in Senders |-> SenderIdle]
    /\ rl_sent = [c \in Classes |-> 0]
    /\ rl_errors = 0
    /\ rl_sub = 0
    /\ prayer_cache = <<>>
    /\ rv = NoCall
    /\ calc = NoCalc
    /\ api_status = "none"
    /\ cache_got = NoLookup
    /\ reset_returned = "none"
    /\ tpl_inflight = 0
    /\ msg_type = NoType
    /\ task_queue = [n \in 0..task_max_retries |-> 0]
    /\ run = NoRun
    /\ swr_result = "none"
    /\ swr_sends = 0
    /\ swr_delays = <<>>
    /\ task_runs = 0
    /\ rwb = [pc |-> "idle", attempt |-> 0]
    /\ checker = [w \in Checkers |-> CheckerIdle]
    /\ rl_admitted = <<>>
    /\ rl_observed = {}
    /\ core_zsets = [main |-> {}, burst |-> {}]
    /\ core_result = NoCoreResult
    /\ core_admitted = <<>>
    /\ core_calls = 0
    /\ core_errors = 0
    /\ ai_client = NoClient
    /\ ai_result = NoAiResult
    /\ ai_calls = 0
    /\ rwb_calls = 0

Tick ==
    /\ now + TickStep <= MaxTime
    /\ now' = now + TickStep
    /\ UNCHANGED <<breakerVars, dispatchVars, otherVars>>

(***************************************************************************)
(* core breaker: call() up to the await, then its two completions          *)
(***************************************************************************)
CallBegin ==
    /\ cb.total_requests < MaxCalls
    /\ LET b1 == [cb EXCEPT !.total_requests = @ + 1] IN
       IF ~ _can_execute(b1, now)
       THEN /\ cb' = call_rejected(b1, now)
            /\ cb_rejected_at' = now
            /\ UNCHANGED cb_inflight
       ELSE /\ cb_inflight < MaxInflight
            /\ cb' = _can_execute_effect(b1, now)
            /\ cb_inflight' = cb_inflight + 1
            /\ UNCHANGED cb_rejected_at
    /\ UNCHANGED <<now, cb_streak, cb_opened_at, gatewayVars, dispatchVars, otherVars>>

CallSuccess ==
    /\ cb_inflight > 0
    /\ cb' = _record_success(cb)
    /\ cb_inflight' = cb_inflight - 1
    /\ cb_streak' = 0
    /\ UNCHANGED <<now, cb_opened_at, cb_rejected_at, gatewayVars, dispatchVars, otherVars>>

CallFailure ==
    /\ cb_inflight > 0
    /\ cb' = _record_failure(cb, now)
    /\ cb_inflight' = cb_inflight - 1
    /\ cb_streak' = cb_streak + 1
    /\ cb_opened_at' = IF cb.state # "open" /\ cb'.state = "open" THEN now ELSE cb_opened_at
    /\ UNCHANGED <<now, cb_rejected_at, gatewayVars, dispatchVars, otherVars>>

Reset ==
    /\ cb.state # "closed" \/ cb.failure_count > 0
    /\ cb' = reset(cb)
    /\ cb_streak' = 0
    /\ UNCHANGED <<now, cb_inflight, cb_opened_at, cb_rejected_at, gatewayVars, dispatchVars, otherVars>>

\* CircuitBreakerRegistry.reset_breaker(name)
ResetBreaker(name) ==
    /\ IF name \in _breakers
       THEN /\ cb' = reset(cb)
            /\ cb_streak' = 0
            /\ reset_returned' = "True"
       ELSE /\ reset_returned' = "False"
            /\ UNCHANGED <<cb, cb_streak>>
    /\ UNCHANGED <<now, cb_inflight, cb_opened_at, cb_rejected_at, gatewayVars, dispatchVars,
                   limiterVars, resolverVars, clientVars, retryVars, admissionVars>>

(***************************************************************************)
(* gateway breaker: call() up to the await, then its two completions       *)
(***************************************************************************)
GwCallBegin ==
    /\ IF ~ gw_can_execute(gw, now)
       THEN /\ gw_rejects < MaxGwRejects
            /\ gw' = gw_rejected(gw, now)
            /\ gw_rejects' = gw_rejects + 1
            /\ UNCHANGED gw_inflight
       ELSE /\ gw_inflight < MaxGwInflight
            /\ gw' = gw_enter(gw, now)
            /\ gw_inflight' = gw_inflight + 1
            /\ UNCHANGED gw_rejects
    /\ UNCHANGED <<now, coreVars, gw_non2xx, dispatchVars, otherVars>>

GwCallSuccess ==
    /\ gw_inflight > 0
    /\ gw' = gw_success(gw)
    /\ gw_inflight' = gw_inflight - 1
    /\ gw_non2xx' = 0
    /\ UNCHANGED <<now, coreVars, gw_rejects, dispatchVars, otherVars>>

GwCallFailure ==
    /\ gw_inflight > 0
    /\ gw' = gw_failure(gw, now)
    /\ gw_inflight' = gw_inflight - 1
    /\ gw_non2xx' = 0
    /\ UNCHANGED <<now, coreVars, gw_rejects, dispatchVars, otherVars>>

\* send_text_message when the POST answers with a non-2xx status: _send
\* returns the response, so call() takes its success path; raise_for_status
\* raises after call() has returned and the send ends in success False
GwCallNon2xx ==
    /\ gw_inflight > 0
    /\ gw_non2xx < MaxNon2xx
    /\ gw' = gw_success(gw)
    /\ gw_inflight' = gw_inflight - 1
    /\ gw_non2xx' = gw_non2xx + 1
    /\ UNCHANGED <<now, coreVars, gw_rejects, dispatchVars, otherVars>>

(***************************************************************************)
(* WhatsAppClient: send_text_message posts through webhook_circuit_breaker *)
(* (GwCallBegin and its completions above), send_template_message posts    *)
(* with self.client.post itself                                            *)
(***************************************************************************)
\* send_template_message after wait_if_needed: `await self.client.post(...)`
TemplatePost ==
    /\ tpl_inflight < MaxTplInflight
    /\ tpl_inflight' = tpl_inflight + 1
    /\ UNCHANGED <<now, breakerVars, dispatchVars, limiterVars, resolverVars, registryVars,
                   admissionVars,
                   retryVars>>

\* the POST returns or raises: a result dict is returned either way
TemplateReturn ==
    /\ tpl_inflight > 0
    /\ tpl_inflight' = tpl_inflight - 1
    /\ UNCHANGED <<now, breakerVars, dispatchVars, limiterVars, resolverVars, registryVars,
                   admissionVars,
                   retryVars>>

(***************************************************************************)
(* Retries of the gateway: the operations                                  *)
(***************************************************************************)
\* send_message_task.delay(message_type, to, content), for one message
Submit(mtype) ==
    /\ msg_type = NoType
    /\ msg_type' = mtype
    /\ task_queue' = [task_queue EXCEPT ![0] = @ + 1]
    /\ UNCHANGED <<now, breakerVars, dispatchVars, limiterVars, resolverVars, registryVars,
                   admissionVars,
                   clientVars, run, swr_result, swr_sends, swr_delays, task_runs, rwb, rwb_calls>>

\* the worker starts a waiting send_message_task: send_with_retry(retries = 0)
TaskStart(n) ==
    /\ run.pc = "idle"
    /\ task_queue[n] > 0
    /\ task_queue' = [task_queue EXCEPT ![n] = @ - 1]
    /\ run' = [pc |-> "call", request_retries |-> n, retries |-> 0]
    /\ swr_sends' = 0
    /\ swr_delays' = <<>>
    /\ task_runs' = task_runs + 1
    /\ UNCHANGED <<now, breakerVars, dispatchVars, limiterVars, resolverVars, registryVars,
                   admissionVars,
                   clientVars, msg_type, swr_result, rwb, rwb_calls>>

\* send_with_retry at one level of its recursion: the send and what follows
\* it, up to the sleep before the next level or to the end of the task
SendAttempt(outcome) ==
    LET result == IF Unsupported(msg_type) THEN "failure"
                  ELSE IF outcome = "raised" THEN "max_retries_exceeded"
                  ELSE outcome
    IN
    /\ run.pc = "call"
    /\ swr_sends' = IF Unsupported(msg_type) THEN swr_sends ELSE swr_sends + 1
    /\ IF ~ Unsupported(msg_type) /\ outcome # "success" /\ MayRetry(run.retries)
       THEN /\ run' = [run EXCEPT !.pc = "sleeping"]
            /\ swr_delays' = Append(swr_delays, delay(run.retries))
            /\ UNCHANGED <<swr_result, task_queue>>
       ELSE /\ swr_result' = result
            /\ task_queue' = after_send_with_retry(task_queue, run.request_retries, result)
            /\ run' = NoRun
            /\ UNCHANGED swr_delays
    /\ UNCHANGED <<now, breakerVars, dispatchVars, limiterVars, resolverVars, registryVars,
                   admissionVars,
                   clientVars, msg_type, task_runs, rwb, rwb_calls>>

\* asyncio.sleep(delay) is over: send_with_retry(..., retries + 1)
SendRetry ==
    /\ run.pc = "sleeping"
    /\ run' = [run EXCEPT !.pc = "call", !.retries = @ + 1]
    /\ UNCHANGED <<now, breakerVars, dispatchVars, limiterVars, resolverVars, registryVars,
                   admissionVars,
                   clientVars, msg_type, task_queue, swr_result, swr_sends, swr_delays,
                   task_runs, rwb, rwb_calls>>

\* retry_with_backoff is called: attempt 0 of range(max_attempts)
BackoffStart ==
    /\ rwb.pc = "idle"
    /\ rwb' = [pc |-> "attempt", attempt |-> 0]
    /\ UNCHANGED <<now, breakerVars, dispatchVars, limiterVars, resolverVars, registryVars,
                   admissionVars,
                   clientVars, msg_type, task_queue, run, swr_result, swr_sends, swr_delays,
                   task_runs, rwb_calls>>

\* retry_with_backoff: `await func(...)` returns or raises
BackoffAttempt(ok) ==
    /\ rwb.pc = "attempt"
    /\ rwb_calls' = rwb_calls + 1
    /\ rwb' = IF ok THEN [rwb EXCEPT !.pc = "returned"]
              ELSE IF LastAttempt(rwb.attempt) THEN [rwb EXCEPT !.pc = "raised"]
              ELSE [rwb EXCEPT !.pc = "sleeping"]
    /\ UNCHANGED <<now, breakerVars, dispatchVars, limiterVars, resolverVars, registryVars,
                   admissionVars,
                   clientVars, msg_type, task_queue, run, swr_result, swr_sends, swr_delays,
                   task_runs>>

\* retry_with_backoff: asyncio.sleep(delay) is over, the loop goes on
BackoffRetry ==
    /\ rwb.pc = "sleeping"
    /\ rwb' = [pc |-> "attempt", attempt |-> rwb.attempt + 1]
    /\ UNCHANGED <<now, breakerVars, dispatchVars, limiterVars, resolverVars, registryVars,
                   admissionVars,
                   clientVars, msg_type, task_queue, run, swr_result, swr_sends, swr_delays,
                   task_runs, rwb_calls>>

(***************************************************************************)
(* Feedback message dispatch: the operations                               *)
(***************************************************************************)
TickDispatch ==
    /\ now + DispatchStep <= MaxDispatchTime
    /\ now' = now + DispatchStep
    /\ UNCHANGED <<breakerVars, otherVars, apiVars, storeVars, brokerVars, worker, sw_todo, c_running,
                   c_todo, sends>>

\* schedule_campaign is called: get_campaign_recipients; each recipient has
\* the send time _calculate_send_time will give for its visit
ScheduleBegin(start_time, end_time, send_times) ==
    /\ sched.pc = "idle"
    /\ sched' = [pc |-> "running", start_time |-> start_time, end_time |-> end_time,
                 recipients |-> {Recipient(m, send_times[m]) : m \in Msgs}]
    /\ rcp_todo' = {Recipient(m, send_times[m]) : m \in Msgs}
    /\ scheduled_jobs' = {}
    /\ UNCHANGED <<now, breakerVars, otherVars, storeVars, brokerVars, worker, sw_todo,
                   c_running, c_todo, sends, c_seen, r_returned>>

\* schedule_campaign, one pass of its loop over the recipients; after the
\* last one `return scheduled_jobs`
ScheduleRecipient(x) ==
    LET send_time == window_start(x.send_time, sched.start_time) IN
    /\ sched.pc = "running"
    /\ x \in rcp_todo
    /\ rcp_todo' = rcp_todo \ {x}
    /\ sched' = IF rcp_todo = {x} THEN [sched EXCEPT !.pc = "returned"] ELSE sched
    /\ IF outside_window(send_time, sched.end_time)
       THEN UNCHANGED <<msg, queue, next_task, scheduled_jobs>>
       ELSE /\ next_task <= MaxTasks
            /\ msg' = [msg EXCEPT ![x.m] = [status |-> "scheduled", send_time |-> send_time,
                                            task_id |-> NoTask]]
            /\ queue' = queue \cup {Task(next_task, x.m, send_time)}
            /\ next_task' = next_task + 1
            /\ scheduled_jobs' = scheduled_jobs \cup {Job(x.m, next_task, send_time)}
    /\ UNCHANGED <<now, breakerVars, otherVars, rcp_status, campaign_status, revoked, worker,
                   sw_todo, c_running, c_todo, sends, c_seen, r_returned>>

\* _process_scheduled_feedback_async: the query
SweepRead ==
    /\ sw_todo = {}
    /\ DueScheduled(msg, now) # {}
    /\ sw_todo' = {[m |-> m, send_time |-> msg[m].send_time, task |-> NoTask] :
                     m \in DueScheduled(msg, now)}
    /\ UNCHANGED <<now, breakerVars, otherVars, apiVars, storeVars, brokerVars, worker, c_running, c_todo, sends>>

\* _process_scheduled_feedback_async: one pass of the loop, apply_async with
\* the row's scheduled_send_time as eta
SweepEnqueue(x) ==
    /\ x \in sw_todo
    /\ x.task = NoTask
    /\ \A y \in sw_todo : y.task = NoTask
    /\ next_task <= MaxTasks
    /\ queue' = queue \cup {Task(next_task, x.m, x.send_time)}
    /\ next_task' = next_task + 1
    /\ sw_todo' = (sw_todo \ {x}) \cup {[x EXCEPT !.task = next_task]}
    /\ UNCHANGED <<now, breakerVars, otherVars, apiVars, storeVars, revoked, worker, c_running, c_todo, sends>>

\* _process_scheduled_feedback_async: the same pass, the update of the row
\* to queued with the id of the task just enqueued
SweepMark(x) ==
    /\ x \in sw_todo
    /\ x.task # NoTask
    /\ msg' = [msg EXCEPT ![x.m].status = "queued", ![x.m].task_id = x.task]
    /\ sw_todo' = sw_todo \ {x}
    /\ UNCHANGED <<now, breakerVars, otherVars, apiVars, rcp_status, campaign_status, brokerVars, worker,
                   c_running, c_todo, sends>>

\* cancel_campaign: the query for the scheduled messages
CancelRead ==
    /\ ~ c_running
    /\ campaign_status = "active"
    /\ c_running' = TRUE
    /\ c_todo' = {[m |-> m, send_time |-> msg[m].send_time, task_id |-> msg[m].task_id] :
                    m \in ScheduledRows(msg)}
    /\ c_seen' = {m \in Msgs : msg[m].status \in {"scheduled", "queued"}}
    /\ UNCHANGED <<now, breakerVars, otherVars, storeVars, brokerVars, worker, sw_todo, sends,
                   sched, rcp_todo, scheduled_jobs, r_returned>>

\* cancel_campaign: one pass of the loop, in scheduled_send_time order;
\* revoke(terminate=True) may or may not stop a worker already on the task
CancelWrite(x, kill) ==
    /\ c_running
    /\ x \in c_todo
    /\ \A y \in c_todo : x.send_time <= y.send_time
    /\ revoked' = IF x.task_id # NoTask THEN revoked \cup {x.task_id} ELSE revoked
    /\ worker' = [w \in Workers |->
                    IF kill /\ x.task_id # NoTask /\ worker[w].task = x.task_id
                    THEN Idle ELSE worker[w]]
    /\ msg' = update_message_status(msg, x.m, "cancelled")
    /\ c_todo' = c_todo \ {x}
    /\ UNCHANGED <<now, breakerVars, otherVars, apiVars, rcp_status, campaign_status, queue, next_task,
                   sw_todo, c_running, sends>>

\* cancel_campaign: the campaign update after the loop
CancelDone ==
    /\ c_running
    /\ c_todo = {}
    /\ campaign_status' = "cancelled"
    /\ c_running' = FALSE
    /\ UNCHANGED <<now, breakerVars, otherVars, apiVars, msg, rcp_status, brokerVars, worker, sw_todo,
                   c_todo, sends>>

\* (mutant) reschedule_message lets every status but cancelled through
Reschedulable_unless_cancelled(status) == status \notin {"none", "cancelled"}

\* reschedule_message: `if not message or message['status'] != 'scheduled'`
Reschedulable(status) == status = "scheduled"

\* reschedule_message: False, with nothing done, when there is no such
\* message or its status is not scheduled
Reschedule(m, new_send_time) ==
    /\ IF Reschedulable(msg[m].status)
       THEN /\ next_task <= MaxTasks
            /\ revoked' = IF msg[m].task_id # NoTask THEN revoked \cup {msg[m].task_id}
                                                     ELSE revoked
            /\ queue' = queue \cup {Task(next_task, m, new_send_time)}
            /\ next_task' = next_task + 1
            /\ msg' = [msg EXCEPT ![m].send_time = new_send_time, ![m].task_id = next_task]
            /\ r_returned' = "True"
       ELSE /\ r_returned' = "False"
            /\ UNCHANGED <<revoked, queue, next_task, msg>>
    /\ UNCHANGED <<now, breakerVars, otherVars, rcp_status, campaign_status, worker, sw_todo,
                   c_running, c_todo, sends, sched, rcp_todo, scheduled_jobs, c_seen>>

\* send_feedback_message: a worker takes a task whose eta has come, reads the
\* message and checks its status.  A revoked task is discarded.  (The reads
\* of the store succeed: self.retry, reached only when one of them raises,
\* is not exercised.)
WorkerClaim(w, t) ==
    /\ worker[w].pc = "idle"
    /\ t \in queue
    /\ t.eta <= now
    /\ queue' = queue \ {t}
    /\ IF t.id \notin revoked /\ Sendable(msg[t.m].status)
       THEN worker' = [worker EXCEPT ![w] = [pc |-> "claimed", task |-> t.id, m |-> t.m]]
       ELSE UNCHANGED worker
    /\ UNCHANGED <<now, breakerVars, otherVars, apiVars, storeVars, revoked, next_task, sw_todo, c_running,
                   c_todo, sends>>

\* _send_feedback_message_async: the POST to the gateway.  Anything but a
\* 200 (another status, a timeout, a connection error) returns an error dict.
WorkerPost(w, ok) ==
    /\ worker[w].pc = "claimed"
    /\ sends' = [sends EXCEPT ![worker[w].m] = @ + 1]
    /\ worker' = IF ok THEN [worker EXCEPT ![w].pc = "posted"]
                        ELSE [worker EXCEPT ![w] = Idle]
    /\ UNCHANGED <<now, breakerVars, otherVars, apiVars, storeVars, brokerVars, sw_todo, c_running, c_todo>>

\* _send_feedback_message_async: after the 200, message and recipient to sent
WorkerRecord(w) ==
    /\ worker[w].pc = "posted"
    /\ msg' = update_message_status(msg, worker[w].m, "sent")
    /\ rcp_status' = [rcp_status EXCEPT ![worker[w].m] = "sent"]
    /\ worker' = [worker EXCEPT ![w] = Idle]
    /\ UNCHANGED <<now, breakerVars, otherVars, apiVars, campaign_status, brokerVars, sw_todo, c_running,
                   c_todo, sends>>

\* process_feedback_response for a message the customer has received
ProcessResponse(m) ==
    /\ sends[m] > 0
    /\ msg[m].status # "responded"
    /\ rcp_status' = [rcp_status EXCEPT ![m] = "responded"]
    /\ msg' = update_message_status(msg, m, "responded")
    /\ UNCHANGED <<now, breakerVars, otherVars, apiVars, campaign_status, brokerVars, worker, sw_todo,
                   c_running, c_todo, sends>>

(***************************************************************************)
(* Rate limiter and gated sends: the operations                            *)
(***************************************************************************)
\* a second passes: a new window bucket begins, expired keys are gone
TickLimiter ==
    /\ now + window_seconds <= MaxLimiterTime
    /\ now' = now + window_seconds
    /\ rl_store' = expire_keys(rl_store, now + window_seconds)
    /\ rl_sent' = [c \in Classes |-> 0]
    /\ UNCHANGED <<breakerVars, dispatchVars, resolverVars, extraVars, rl_result, sender, rl_errors,
                   rl_sub>>

\* a part of a second passes: time.time() is a float, the bucket stays
TickSub ==
    /\ rl_sub + 1 < Resolution
    /\ rl_sub' = rl_sub + 1
    /\ UNCHANGED <<now, breakerVars, dispatchVars, resolverVars, extraVars, rl_store, rl_result,
                   sender, rl_sent, rl_errors>>

\* RateLimitMiddleware.dispatch on a /webhook path: check_rate_limit, 429
\* when denied; store_ok = FALSE is the pipeline raising
MiddlewareCheck(identifier, is_user_initiated, store_ok) ==
    LET key == _get_key(identifier, message_type(is_user_initiated), now) IN
    /\ IF store_ok
       THEN /\ Count(rl_store, key) < MaxCount
            /\ rl_result' = check_rate_limit(rl_store, identifier, is_user_initiated, now)
            /\ rl_store' = incr_expire(rl_store, key, now)
            /\ UNCHANGED rl_errors
       ELSE /\ rl_errors < MaxStoreErrors
            /\ rl_result' = check_rate_limit_error(identifier, is_user_initiated)
            /\ rl_errors' = rl_errors + 1
            /\ UNCHANGED rl_store
    /\ UNCHANGED <<now, breakerVars, dispatchVars, resolverVars, extraVars, sender, rl_sent, rl_sub>>

\* send_text_message / send_template_message up to the end of the check in
\* wait_if_needed: ready to POST, or denied and about to time.sleep(window_seconds)
SendBegin(p, identifier, is_user_initiated, store_ok) ==
    LET key == _get_key(identifier, message_type(is_user_initiated), now)
        r == IF store_ok THEN check_rate_limit(rl_store, identifier, is_user_initiated, now)
                         ELSE check_rate_limit_error(identifier, is_user_initiated)
    IN
    /\ sender[p].pc = "idle"
    /\ IF store_ok THEN Count(rl_store, key) < MaxCount ELSE rl_errors < MaxStoreErrors
    /\ rl_errors' = IF store_ok THEN rl_errors ELSE rl_errors + 1
    /\ rl_result' = r
    /\ rl_store' = IF store_ok THEN incr_expire(rl_store, key, now) ELSE rl_store
    /\ sender' = [sender EXCEPT ![p] =
                    [pc |-> IF r.allowed THEN "ready" ELSE "sleeping",
                     id |-> identifier, cls |-> r.cls,
                     wake |-> IF r.allowed THEN 0 ELSE now + window_seconds]]
    /\ UNCHANGED <<now, breakerVars, dispatchVars, resolverVars, extraVars, rl_sent, rl_sub>>

\* wait_if_needed: time.sleep(wait_time) is over, wait_time is returned
SendWake(p) ==
    /\ sender[p].pc = "sleeping"
    /\ now >= sender[p].wake
    /\ sender' = [sender EXCEPT ![p].pc = "ready"]
    /\ UNCHANGED <<now, breakerVars, dispatchVars, resolverVars, extraVars, rl_store, rl_result, rl_sent,
                   rl_errors, rl_sub>>

\* send_*_message: the POST to {base_url}/messages
SendPost(p) ==
    /\ sender[p].pc = "ready"
    /\ rl_sent' = [rl_sent EXCEPT ![sender[p].cls] = @ + 1]
    /\ sender' = [sender EXCEPT ![p] = SenderIdle]
    /\ UNCHANGED <<now, breakerVars, dispatchVars, resolverVars, extraVars, rl_store, rl_result,
                   rl_errors, rl_sub>>

\* check_rate_limit in worker w up to `results = pipeline.execute()`: Redis
\* runs INCR and EXPIRE at once and answers with the new count, or the
\* pipeline raises (store_ok = FALSE)
PipelineExecute(w, identifier, is_user_initiated, store_ok) ==
    LET key == _get_key(identifier, message_type(is_user_initiated), now)
        current_count == Count(rl_store, key) + 1
    IN
    /\ checker[w].pc = "idle"
    /\ now <= MaxAdmitTime
    /\ IF store_ok
       THEN /\ Count(rl_store, key) < MaxCount
            /\ rl_store' = incr_expire(rl_store, key, now)
            /\ rl_observed' = rl_observed \cup {<<key, current_count>>}
            /\ checker' = [checker EXCEPT ![w] =
                             [pc |-> "executed", id |-> identifier,
                              cls |-> message_type(is_user_initiated), key |-> key,
                              count |-> current_count]]
            /\ UNCHANGED rl_errors
       ELSE /\ rl_errors < MaxStoreErrors
            /\ rl_errors' = rl_errors + 1
            /\ checker' = [checker EXCEPT ![w] =
                             [pc |-> "raised", id |-> identifier,
                              cls |-> message_type(is_user_initiated), key |-> key,
                              count |-> None]]
            /\ UNCHANGED <<rl_store, rl_observed>>
    /\ UNCHANGED <<now, breakerVars, dispatchVars, resolverVars, registryVars, clientVars, retryVars,
                   coreLimVars, aiVars, rl_result, sender, rl_sent, rl_sub, rl_admitted>>

\* check_rate_limit in worker w from the comparison with the limit to its
\* return, or its `except` branch
CheckReturn(w) ==
    LET c == checker[w]
        allowed == IF c.pc = "executed"
                   THEN ~ Exceeded(c.count, _get_limit(c.cls = "user"))
                   ELSE TRUE
        a == Admitted(rl_admitted, c.key)
    IN
    /\ c.pc \in {"executed", "raised"}
    /\ rl_result' = [id |-> c.id, cls |-> c.cls, allowed |-> allowed, count |-> c.count]
    /\ rl_admitted' =
          IF allowed
          THEN [k \in DOMAIN rl_admitted \cup {c.key} |->
                  IF k = c.key
                  THEN IF c.pc = "executed" THEN [a EXCEPT !.counted = @ + 1]
                                            ELSE [a EXCEPT !.uncounted = @ + 1]
                  ELSE rl_admitted[k]]
          ELSE rl_admitted
    /\ checker' = [checker EXCEPT ![w] = CheckerIdle]
    /\ UNCHANGED <<now, breakerVars, dispatchVars, resolverVars, registryVars, clientVars, retryVars,
                   coreLimVars, aiVars, rl_store, sender, rl_sent, rl_errors, rl_sub,
                   rl_observed>>

NextAdmit ==
    \/ TickLimiter
    \/ \E w \in Checkers : \E i \in Identifiers : \E u \in BOOLEAN : \E ok \in BOOLEAN :
          PipelineExecute(w, i, u, ok)
    \/ \E w \in Checkers : CheckReturn(w)

\* the core-api limiter's clock moves on; the gateway's counters, which
\* live for 2 * window_seconds, are gone by then
TickCore ==
    /\ now + CoreStep <= MaxCoreTime
    /\ now' = now + CoreStep
    /\ rl_store' = expire_keys(rl_store, now + CoreStep)
    /\ UNCHANGED <<breakerVars, dispatchVars, resolverVars, extraVars, rl_result, sender, rl_sent,
                   rl_errors, rl_sub>>

\* core-api check_rate_limit for one request of the client to the upload
\* endpoint; main_ok / burst_ok = FALSE is the pipeline of that window
\* raising redis.RedisError
CoreCheck(main_ok, burst_ok) ==
    LET main_count == IF main_ok THEN _check_window(core_zsets.main, window, now) ELSE 0
        burst_checked == ~ (main_count > requests)
        burst_count == IF burst_ok THEN _check_window(core_zsets.burst, burst_window, now) ELSE 0
        raised == (IF main_ok THEN {} ELSE {"main"})
                    \cup (IF burst_checked /\ ~ burst_ok THEN {"burst"} ELSE {})
        result == IF main_count > requests
                  THEN CoreResult("Rate limit exceeded", main_count, Unchecked, raised)
                  ELSE IF burst_count > burst
                  THEN CoreResult("Burst limit exceeded", main_count, burst_count, raised)
                  ELSE CoreResult(NoError, main_count, burst_count, raised)
    IN
    /\ core_calls < MaxCoreCalls
    /\ burst_checked \/ burst_ok
    /\ core_errors + Cardinality(raised) <= MaxStoreErrors
    /\ core_calls' = core_calls + 1
    /\ core_errors' = core_errors + Cardinality(raised)
    /\ core_zsets' =
          [main |-> IF main_ok THEN _check_window_effect(core_zsets.main, window, now)
                               ELSE core_zsets.main,
           burst |-> IF burst_checked /\ burst_ok
                     THEN _check_window_effect(core_zsets.burst, burst_window, now)
                     ELSE core_zsets.burst]
    /\ core_result' = result
    /\ core_admitted' =
          IF result.error = NoError
          THEN [t \in DOMAIN core_admitted \cup {now} |->
                  IF t = now THEN AdmittedAt(core_admitted, now) + 1 ELSE core_admitted[t]]
          ELSE core_admitted
    /\ UNCHANGED <<now, breakerVars, dispatchVars, limiterVars, resolverVars, registryVars,
                   clientVars, retryVars, admitVars, aiVars>>

NextCore ==
    \/ TickCore
    \/ \E main_ok \in BOOLEAN : \E burst_ok \in BOOLEAN : CoreCheck(main_ok, burst_ok)

\* the two limiters that count in Redis, with the store raising at times
NextOutage ==
    \/ TickCore
    \/ \E main_ok \in BOOLEAN : \E burst_ok \in BOOLEAN : CoreCheck(main_ok, burst_ok)
    \/ \E i \in Identifiers : \E u \in BOOLEAN : \E ok \in BOOLEAN : MiddlewareCheck(i, u, ok)

\* the ai-processor's clock moves on
TickAi ==
    /\ now + AiStep <= MaxAiTime
    /\ now' = now + AiStep
    /\ UNCHANGED <<breakerVars, dispatchVars, otherVars>>

\* ai-processor check_rate_limit for a request of the client to path
AiCheck(path) ==
    LET found == client_data(ai_client, now)
        c == reset_window(found, now)
        window_remaining == ai_window - (now - c.window_start)
    IN
    /\ ai_calls < MaxAiCalls
    /\ ai_calls' = ai_calls + 1
    /\ IF found.blocked_until > now
       THEN /\ ai_client' = found
            /\ ai_result' = AiResult(path, FALSE, found.blocked_until - now, found.blocked_until)
       ELSE IF c.requests >= max_requests(path)
       THEN /\ ai_client' = [c EXCEPT !.blocked_until = now + block_time(window_remaining)]
            /\ ai_result' = AiResult(path, FALSE, block_time(window_remaining),
                                     found.blocked_until)
       ELSE /\ ai_client' = [c EXCEPT !.requests = @ + 1]
            /\ ai_result' = AiResult(path, TRUE, 0, found.blocked_until)
    /\ UNCHANGED <<now, breakerVars, dispatchVars, limiterVars, resolverVars, registryVars,
                   clientVars, retryVars, admitVars, coreLimVars>>

NextAi ==
    \/ TickAi
    \/ \E path \in AiPaths : AiCheck(path)

NextLimiter ==
    \/ TickLimiter
    \/ TickSub
    \/ \E i \in Identifiers : \E u \in BOOLEAN : \E ok \in BOOLEAN : MiddlewareCheck(i, u, ok)
    \/ \E p \in Senders : \E i \in Identifiers : \E u \in BOOLEAN : \E ok \in BOOLEAN :
          SendBegin(p, i, u, ok)
    \/ \E p \in Senders : SendWake(p)
    \/ \E p \in Senders : SendPost(p)

(***************************************************************************)
(* Send-time calculation and prayer-time resolution: the operations        *)
(***************************************************************************)
\* the clock moves on by the breaker's timeout ...
TickResolver ==
    /\ now + timeout <= MaxBurstTime
    /\ now' = now + timeout
    /\ UNCHANGED <<breakerVars, dispatchVars, otherVars>>

\* ... or by the time to live of a cache entry
TickHour ==
    /\ now + _cache_ttl <= MaxResolverTime
    /\ now' = now + _cache_ttl
    /\ UNCHANGED <<breakerVars, dispatchVars, otherVars>>

\* schedule_campaign for one recipient: _calculate_send_time up to the end of
\* _check_prayer_time_conflict, or up to the await of the API request
ResolveBegin(visit, start_time) ==
    LET proposed_time == visit + hours(base_delay_hours)
        key == cache_key(proposed_time)
        cached_data == _get_cached_prayer_times(prayer_cache, key, now)
        b1 == [cb EXCEPT !.total_requests = @ + 1]
    IN
    /\ rv.pc = "idle"
    /\ api_status' = "none"
    /\ cache_got' = Lookup(prayer_cache, key, now)
    /\ prayer_cache' = _get_cached_effect(prayer_cache, key, now)
    /\ IF cached_data.ok
       THEN /\ calc' = Calc(visit, answer_from_data(proposed_time, cached_data, "cache"),
                            start_time, FALSE)
            /\ UNCHANGED <<rv, cb, cb_inflight, cb_rejected_at>>
       ELSE /\ cb.total_requests < MaxCalls
            /\ IF ~ _can_execute(b1, now)
               THEN /\ cb' = call_rejected(b1, now)
                    /\ cb_rejected_at' = now
                    /\ calc' = Calc(visit, _fallback_prayer_check(proposed_time),
                                    start_time, FALSE)
                    /\ UNCHANGED <<rv, cb_inflight>>
               ELSE /\ cb' = _can_execute_effect(b1, now)
                    /\ cb_inflight' = cb_inflight + 1
                    /\ rv' = [pc |-> "fetching", visit |-> visit, start_time |-> start_time]
                    /\ UNCHANGED <<calc, cb_rejected_at>>
    /\ UNCHANGED <<now, cb_streak, cb_opened_at, gatewayVars, dispatchVars, limiterVars, extraVars>>

\* the API request returns: status 200 with the API's data, or another
\* status (None); the breaker records a success, the data is cached
ApiReply(ok) ==
    LET proposed_time == rv.visit + hours(base_delay_hours)
        prayer_data == IF ok THEN api_data(proposed_time) ELSE NoData
    IN
    /\ rv.pc = "fetching"
    /\ api_status' = IF ok THEN "200" ELSE "other"
    /\ UNCHANGED cache_got
    /\ cb' = _record_success(cb)
    /\ cb_inflight' = cb_inflight - 1
    /\ cb_streak' = 0
    /\ prayer_cache' = _cache_prayer_times(prayer_cache, cache_key(proposed_time),
                                           prayer_data, now)
    /\ calc' = Calc(rv.visit, answer_from_data(proposed_time, prayer_data, "api"),
                    rv.start_time, TRUE)
    /\ rv' = NoCall
    /\ UNCHANGED <<now, cb_opened_at, cb_rejected_at, gatewayVars, dispatchVars, limiterVars, extraVars>>

\* the API request raises (connection error, timeout): the breaker records
\* a failure, `except Exception` answers from the fallback
ApiFail ==
    LET proposed_time == rv.visit + hours(base_delay_hours) IN
    /\ rv.pc = "fetching"
    /\ api_status' = "raised"
    /\ UNCHANGED cache_got
    /\ cb' = _record_failure(cb, now)
    /\ cb_inflight' = cb_inflight - 1
    /\ cb_streak' = cb_streak + 1
    /\ cb_opened_at' = IF cb.state # "open" /\ cb'.state = "open" THEN now ELSE cb_opened_at
    /\ calc' = Calc(rv.visit, _fallback_prayer_check(proposed_time), rv.start_time, TRUE)
    /\ rv' = NoCall
    /\ UNCHANGED <<now, cb_rejected_at, gatewayVars, dispatchVars, limiterVars, extraVars, prayer_cache>>

\* _get_cached_prayer_times(cache_key) for the date d
CacheLookup(d) ==
    /\ cache_got' = Lookup(prayer_cache, d, now)
    /\ prayer_cache' = _get_cached_effect(prayer_cache, d, now)
    /\ UNCHANGED <<now, breakerVars, dispatchVars, limiterVars, extraVars, rv, calc, api_status>>

\* _cache_prayer_times(cache_key, prayer_data) for the date d: the date
\* after the last one cached, or one of RepeatDates
CacheInsert(d) ==
    /\ d \in CacheDates
    /\ prayer_cache' = _cache_prayer_times(prayer_cache, d, DataOf(d), now)
    /\ UNCHANGED <<now, breakerVars, dispatchVars, limiterVars, extraVars, rv, calc, api_status,
                   cache_got>>

NextCache ==
    \/ TickHour
    \/ \E d \in LookupDates : CacheLookup(d)
    \/ \E d \in {NextDate(prayer_cache)} \cup RepeatDates : CacheInsert(d)

NextResolver ==
    \/ TickResolver
    \/ TickHour
    \/ \E v \in Visits : \E st \in StartTimes : ResolveBegin(v, st)
    \/ \E ok \in BOOLEAN : ApiReply(ok)
    \/ ApiFail

NextDispatch ==
    \/ TickDispatch
    \/ \E st \in WindowStarts : \E et \in WindowEnds : \E f \in [Msgs -> SendTimes(now)] :
          ScheduleBegin(st, et, f)
    \/ \E x \in rcp_todo : ScheduleRecipient(x)
    \/ SweepRead
    \/ \E x \in sw_todo : SweepEnqueue(x)
    \/ \E x \in sw_todo : SweepMark(x)
    \/ CancelRead
    \/ \E x \in c_todo : \E kill \in BOOLEAN : CancelWrite(x, kill)
    \/ CancelDone
    \/ \E m \in Msgs : \E t \in SendTimes(now) : Reschedule(m, t)
    \/ \E w \in Workers : \E t \in queue : WorkerClaim(w, t)
    \/ \E w \in Workers : \E ok \in BOOLEAN : WorkerPost(w, ok)
    \/ \E w \in Workers : WorkerRecord(w)
    \/ \E m \in Msgs : ProcessResponse(m)

NextCB ==
    \/ Tick
    \/ CallBegin
    \/ CallSuccess
    \/ CallFailure
    \/ Reset
    \/ \E name \in BreakerNames : ResetBreaker(name)

NextBreakers ==
    \/ Tick
    \/ CallBegin
    \/ CallSuccess
    \/ CallFailure
    \/ Reset
    \/ GwCallBegin
    \/ GwCallSuccess
    \/ GwCallFailure

NextClient ==
    \/ Tick
    \/ GwCallBegin
    \/ GwCallSuccess
    \/ GwCallFailure
    \/ GwCallNon2xx
    \/ TemplatePost
    \/ TemplateReturn

NextRetry ==
    \/ \E t \in MessageTypes : Submit(t)
    \/ \E n \in 0..task_max_retries : TaskStart(n)
    \/ \E o \in Outcomes : SendAttempt(o)
    \/ SendRetry
    \/ BackoffStart
    \/ \E ok \in BOOLEAN : BackoffAttempt(ok)
    \/ BackoffRetry

\* the core breaker alone
SpecCB == Init /\ [][NextCB]_vars

\* the core and the gateway breaker side by side
SpecBreakers == Init /\ [][NextBreakers]_vars

\* the dispatch of one campaign's feedback messages
SpecDispatch == Init /\ [][NextDispatch]_vars

\* the gateway's two send methods and the breaker of the downstream API
SpecClient == Init /\ [][NextClient]_vars

\* the gateway's retries; a worker goes on with the tasks that wait, and a
\* sleep ends
SpecRetry == Init /\ [][NextRetry]_vars /\ WF_vars(NextRetry)

\* the gateway's rate limiter and the sends it gates
SpecLimiter == Init /\ [][NextLimiter]_vars

\* the scheduler's send-time calculation with its prayer-time resolution
SpecCore == Init /\ [][NextCore]_vars

SpecOutage == Init /\ [][NextOutage]_vars

SpecAi == Init /\ [][NextAi]_vars

SpecAdmit == Init /\ [][NextAdmit]_vars

SpecCache == Init /\ [][NextCache]_vars

SpecResolver == Init /\ [][NextResolver]_vars

(***************************************************************************)
(* Properties of the circuit breakers                                      *)
(***************************************************************************)
\* a call() arrives at the core breaker in this step
CallArrives == cb'.total_requests = cb.total_requests + 1

\* this step records the success / the failure of a core call()
SuccessRecorded == cb'.total_successes = cb.total_successes + 1
FailureRecorded == cb'.total_failures = cb.total_failures + 1

\* the arriving call() raises CircuitBreakerException, the operation not started
RejectedUnstarted ==
    /\ cb'.total_rejected = cb.total_rejected + 1
    /\ cb_inflight' = cb_inflight

\* the arriving call() starts the wrapped operation
Started ==
    /\ cb'.total_rejected = cb.total_rejected
    /\ cb_inflight' = cb_inflight + 1

\* a call() arrives at the gateway breaker and is rejected
GwRejected == gw_rejects' = gw_rejects + 1

\* C1: a CLOSED core breaker that records failure_threshold failures in a row
\* (no success between) is OPEN, never CLOSED; and a call() arriving at the
\* OPEN breaker before next_attempt raises without starting the operation.
C1_OpensAfterThreshold ==
    /\ [](cb_streak >= failure_threshold => cb.state # "closed")
    /\ [][ /\ (FailureRecorded /\ cb.state = "closed"
                 /\ cb_streak' >= failure_threshold) => cb'.state = "open"
           /\ (CallArrives /\ cb.state = "open" /\ now < cb.next_attempt)
                 => RejectedUnstarted ]_vars

\* exactly failure_threshold failures from the fresh breaker, then a rejected call
C1_Witness ==
    /\ cb.state = "open"
    /\ cb_streak = failure_threshold
    /\ cb.total_failures = failure_threshold
    /\ cb.total_successes = 0
    /\ cb.total_rejected = 1
    /\ cb_inflight = 0

\* C2: whenever the core breaker is OPEN, next_attempt = time of opening +
\* timeout, and every call() arriving while now < next_attempt is rejected
\* with the operation not started and the breaker left OPEN.
C2_OpenBlocksUntilNextAttempt ==
    /\ [](cb.state = "open" => cb.next_attempt = cb_opened_at + timeout)
    /\ [][ (CallArrives /\ cb.state = "open" /\ now < cb.next_attempt)
             => (RejectedUnstarted /\ cb'.state = "open"
                 /\ cb'.next_attempt = cb.next_attempt) ]_vars

\* a call rejected after time has passed since the opening, yet before next_attempt
C2_Witness ==
    /\ cb.state = "open"
    /\ cb_rejected_at = now
    /\ cb_opened_at < now
    /\ now < cb.next_attempt

\* C3: a call() arriving at the OPEN core breaker with now >= next_attempt
\* moves it to HALF_OPEN and is executed; a success in HALF_OPEN that is the
\* success_threshold-th in a row closes the breaker with both counters zero,
\* an earlier one leaves it HALF_OPEN.
C3_ProbeAndClose ==
    [][ /\ (CallArrives /\ cb.state = "open" /\ now >= cb.next_attempt)
              => (Started /\ cb'.state = "half_open")
        /\ (SuccessRecorded /\ cb.state = "half_open")
              => IF cb.success_count + 1 >= success_threshold
                 THEN /\ cb'.state = "closed"
                      /\ cb'.failure_count = 0
                      /\ cb'.success_count = 0
                 ELSE /\ cb'.state = "half_open"
                      /\ cb'.success_count = cb.success_count + 1 ]_vars

\* opened by failure_threshold failures, one call rejected, then closed by
\* success_threshold successes
C3_Witness ==
    /\ cb.state = "closed"
    /\ cb_opened_at > 0
    /\ cb_rejected_at > 0
    /\ cb.total_failures = failure_threshold
    /\ cb.total_successes = success_threshold
    /\ cb.total_requests = failure_threshold + success_threshold + 1
    /\ cb.failure_count = 0

\* C4: a failure recorded while the core breaker is HALF_OPEN opens it at
\* once with next_attempt = now + timeout and success_count = 0, whatever
\* success_count was; a call() arriving before next_attempt is rejected.
C4_HalfOpenFailureReopens ==
    [][ /\ (FailureRecorded /\ cb.state = "half_open")
              => /\ cb'.state = "open"
                 /\ cb'.next_attempt = now + timeout
                 /\ cb'.success_count = 0
        /\ (CallArrives /\ cb.state = "open" /\ cb_opened_at + timeout > now)
              => RejectedUnstarted ]_vars

\* reopened by a failure that followed a success in HALF_OPEN, next call rejected
C4_Witness ==
    /\ cb.state = "open"
    /\ cb.total_successes = 1
    /\ cb.total_failures = failure_threshold + 1
    /\ cb.failure_count = failure_threshold + 1
    /\ cb_opened_at > TickStep
    /\ cb_rejected_at >= cb_opened_at

\* C5: a call rejected by an OPEN breaker is not a failure.  Core breaker:
\* only total_requests and total_rejected grow, by one each.  Gateway
\* breaker: failure_count, last_failure_time and state are unchanged.
C5_RejectionIsNoFailure ==
    [][ /\ (CallArrives /\ ~ Started)
              => cb' = [cb EXCEPT !.total_requests = @ + 1, !.total_rejected = @ + 1]
        /\ GwRejected => gw' = gw ]_vars

\* both breakers have rejected a call
C5_Witness ==
    /\ gw.state = "OPEN"
    /\ gw_rejects > 0
    /\ cb.state = "open"
    /\ cb.total_rejected > 0

(***************************************************************************)
(* Properties of the message dispatch                                      *)
(***************************************************************************)
\* a worker takes task t off the queue in this step (nothing else removes one)
Claims(t) == t \in queue /\ t \notin queue'

\* statuses of a message whose send is over
Completed == {"sent", "delivered", "responded", "cancelled"}

\* C6: a worker task that claims a message whose status is sent, delivered,
\* responded or cancelled starts no request to the send API (no worker goes
\* on to the POST) and changes no message or recipient status.
C6_CompletedClaimIsNoOp ==
    [][ \A t \in queue :
          (Claims(t) /\ msg[t.m].status \in Completed)
            => /\ worker' = worker
               /\ sends' = sends
               /\ msg' = msg
               /\ rcp_status' = rcp_status ]_vars

\* both tasks of a message are consumed, one before and one after it was
\* sent, and a single POST was made
C6_Witness ==
    \E m \in Msgs :
       /\ msg[m].status = "sent"
       /\ sends[m] = 1
       /\ queue = {}
       /\ next_task = 3
       /\ \A w \in Workers : worker[w].pc = "idle"

\* the moves of a message status that are no regression
NoRegress(old, new) ==
    \/ new \in {"scheduled", "queued"} /\ old \in {"none", "scheduled", "queued"}
    \/ new \in {"sent", "failed"} /\ old \in {"scheduled", "queued"}
    \/ new \in {"delivered", "responded"} /\ old \in {"scheduled", "queued", "sent", "delivered"}
    \/ new = "cancelled" /\ old \in {"scheduled", "queued", "failed"}

\* C7: message status never regresses: every change of a message's status is
\* a forward move (or one between scheduled and queued); a message that
\* reached sent or responded is never written cancelled, scheduled or queued.
C7_StatusNeverRegresses ==
    [][ \A m \in Msgs :
          msg'[m].status # msg[m].status => NoRegress(msg[m].status, msg'[m].status) ]_vars

\* nothing is left that would ever send message m: no task, no worker on it,
\* no sweeper or cancel pass pending for it
NothingPending(m) ==
    /\ \A t \in queue : t.m # m
    /\ \A w \in Workers : worker[w].pc = "idle" \/ worker[w].m # m
    /\ \A x \in sw_todo : x.m # m
    /\ \A x \in c_todo : x.m # m

\* C8: a message persisted as scheduled and never cancelled is attempted:
\* once its send time has come and every task queued for it has run, a send
\* request for it has reached the send API, also when the sweeper
\* re-enqueued it and marked it queued.
C8_ScheduledIsAttempted ==
    \A m \in Msgs :
       (/\ msg[m].status \in {"scheduled", "queued"}
        /\ msg[m].send_time <= now
        /\ NothingPending(m))
         => sends[m] > 0

\* C9: on claim the worker accepts a message in status queued as it does one
\* in status scheduled: it goes on to the send attempt.
C9_QueuedIsAccepted ==
    [][ \A t \in queue :
          (Claims(t) /\ t.id \notin revoked /\ msg[t.m].status = "queued")
            => \E w \in Workers : worker'[w] = [pc |-> "claimed", task |-> t.id, m |-> t.m] ]_vars

\* C10: when the send fails on the task's last attempt, the message becomes
\* failed (and the task goes to the dead-letter sink); it is not left in
\* scheduled or queued.
C10_FailedSendMarksFailed ==
    [][ \A w \in Workers :
          (worker[w].pc = "claimed" /\ worker'[w].pc = "idle" /\ sends' # sends)
            => msg'[worker[w].m].status = "failed" ]_vars

\* the pass of schedule_campaign's loop for recipient x is made in this step
Pass(x) == x \in rcp_todo /\ x \notin rcp_todo'

\* the send time of recipient x held against the window start
Raised(x) ==
    IF sched.start_time # None /\ x.send_time < sched.start_time
    THEN sched.start_time ELSE x.send_time

\* the message rows there are
Rows == {m \in Msgs : msg[m].status # "none"}

C22_RowsCarryHandle ==
    sched.pc = "returned"
      => \A j \in scheduled_jobs : msg[j.message_id].task_id # NoTask

\* C23: when cancel_campaign returns (true), every message that was
\* scheduled or queued when its query ran is cancelled and no task of it is
\* left unrevoked in the queue, and the campaign is cancelled; and from
\* then on no task of such a message taken by a worker leads to a send.
C23_CancelStopsAll ==
    [][ /\ (c_running /\ ~ c_running')
             => /\ campaign_status' = "cancelled"
                /\ \A m \in c_seen :
                      /\ msg'[m].status = "cancelled"
                      /\ \A t \in queue' : t.m = m => t.id \in revoked'
        /\ \A t \in queue :
              (Claims(t) /\ ~ c_running /\ campaign_status = "cancelled" /\ t.m \in c_seen)
                => worker' = worker ]_vars

\* reschedule_message changes the row of message m in this step (the only
\* change of a task_id that leaves the status alone)
Rescheduled(m) ==
    /\ msg'[m].task_id # msg[m].task_id
    /\ msg'[m].status = msg[m].status

Quota(c) == IF c = "user" THEN user_rate_limit ELSE business_rate_limit
CurrentKey(i, c) == _get_key(i, c, now)

\* check_rate_limit for identifier i in class c increments its counter
Incremented(i, c) ==
    Count(rl_store', CurrentKey(i, c)) = Count(rl_store, CurrentKey(i, c)) + 1

\* check_rate_limit for identifier i in class c ends in this step
Checked(i, c) ==
    \/ Incremented(i, c)
    \/ rl_errors' = rl_errors + 1 /\ rl_result'.id = i /\ rl_result'.cls = c

AdmittedByCheck(p) == sender[p].wake = 0

\* C12: a send is performed only after the limiter has admitted it: every
\* POST to the downstream API is made by a send whose check_rate_limit
\* returned allowed = true, sends that were denied and waited included (so
\* the POSTs of a bucket cannot pass the quota by way of denied sends).
C12_SendOnlyAfterAdmission ==
    [][ \A p \in Senders :
          (sender[p].pc = "ready" /\ sender'[p].pc = "idle" /\ rl_sent' # rl_sent)
            => AdmittedByCheck(p) ]_vars

\* C13: a check in one traffic class leaves the stored count of the other
\* class as it was, and its outcome is allowed exactly when its own new
\* count is within its own class's quota.
C13_QuotasIndependent ==
    [][ \A i \in Identifiers, c \in Classes :
          Incremented(i, c)
            => /\ \A d \in Classes \ {c} :
                     Count(rl_store', CurrentKey(i, d)) = Count(rl_store, CurrentKey(i, d))
               /\ rl_result'.cls = c
               /\ rl_result'.allowed = (Count(rl_store', CurrentKey(i, c)) <= Quota(c)) ]_vars

\* the business class is over its quota while a user check with a count
\* above the business quota was admitted
C13_Witness ==
    \E i \in Identifiers :
       /\ Count(rl_store, CurrentKey(i, "business")) > business_rate_limit
       /\ rl_result = [id |-> i, cls |-> "user", allowed |-> TRUE, count |-> user_rate_limit]
       /\ user_rate_limit > business_rate_limit

(***************************************************************************)
(* Properties of the send-time calculation and the prayer-time resolution  *)
(***************************************************************************)
Calculated == calc.visit # None
Proposed(c) == c.visit + hours(base_delay_hours)
Floor(c) == c.visit + hours(min_delay_hours)
Ceiling(c) == c.visit + hours(max_delay_hours)

\* C14: the send time _calculate_send_time returns lies between visit + 2h
\* and visit + 4h whatever the resolver answered; a next available time
\* beyond the ceiling gives exactly visit + 4h, one below the floor exactly
\* visit + 2h.
C14_SendTimeClamped ==
    Calculated =>
       /\ Floor(calc) <= calc.send_time
       /\ calc.send_time <= Ceiling(calc)
       /\ (calc.answer.is_prayer_time /\ calc.answer.next_available_time > Ceiling(calc))
            => calc.send_time = Ceiling(calc)
       /\ (calc.answer.is_prayer_time /\ calc.answer.next_available_time < Floor(calc))
            => calc.send_time = Floor(calc)

\* a prayer window pushed the send time beyond the ceiling
C14_Witness ==
    /\ Calculated
    /\ calc.answer.is_prayer_time
    /\ calc.answer.next_available_time > Ceiling(calc)
    /\ calc.send_time = Ceiling(calc)

\* the resolver that answered reports time t as restricted.  Only the
\* fallback is held to its word here: its table answers for every time,
\* while the API is asked about the candidate alone.
Restricted(source, t) == source = "fallback" /\ Hour(t) \in {5, 12, 15, 18, 19}

\* C15: neither the send time _calculate_send_time returns nor the one
\* schedule_campaign persists (raised to the campaign's start_time) lies in
\* a window the resolver reports as restricted, unless it is visit + 4h.
C15_NotInRestrictedWindow ==
    Calculated =>
       /\ Restricted(calc.answer.source, calc.send_time) => calc.send_time = Ceiling(calc)
       /\ Restricted(calc.answer.source, calc.persisted) => calc.persisted = Ceiling(calc)

\* C16: a candidate visit + 3h reported as not restricted is the send time;
\* for one the API reports inside a window ending at W the send time is
\* W + 30 minutes whenever that is between visit + 2h and visit + 4h.
C16_BaseOrAfterWindow ==
    Calculated =>
       /\ ~ calc.answer.is_prayer_time => calc.send_time = Proposed(calc)
       /\ \A w \in PrayerWindows :
            LET after == Date(Proposed(calc)) * MinutesPerDay + w.end + 30 IN
            (/\ calc.answer.source = "api"
             /\ InWindow(Proposed(calc), w)
             /\ calc.answer.is_prayer_time
             /\ Floor(calc) <= after /\ after <= Ceiling(calc))
              => calc.send_time = after

\* the visit at 14:30 with the window ending at 17:45: sent at 18:15
C16_Witness ==
    /\ calc.visit = 870
    /\ calc.answer.source = "api"
    /\ calc.answer.is_prayer_time
    /\ calc.send_time = 1095

\* the answer of the static table of hours for proposed time t
TableSays(a, t) ==
    /\ a.source = "fallback"
    /\ a.is_prayer_time = (Hour(t) \in {5, 12, 15, 18, 19})

C19_CacheAnswersAsApi ==
    (Calculated /\ calc.answer.source = "cache")
      => calc.answer = answer_from_data(Proposed(calc), api_data(Proposed(calc)), "cache")

\* C20: a cache entry that holds the API's data is kept when its time to
\* live has run out (it is only ever replaced by fresh data), so that it is
\* there to answer from when the fresh resolution fails or is rejected.
C20_StaleEntryKept ==
    [][ \A k \in DOMAIN prayer_cache :
          prayer_cache[k].data.ok => k \in DOMAIN prayer_cache' ]_vars

Totals(b) == <<b.total_requests, b.total_successes, b.total_failures, b.total_rejected>>

\* a call() arrives: it is rejected, or its operation is started
CallMade ==
    \/ cb'.total_rejected = cb.total_rejected + 1
    \/ cb_inflight' = cb_inflight + 1

\* reset() runs: fields change while no call arrives and none ends
ResetRuns ==
    /\ cb' # cb
    /\ cb_inflight' = cb_inflight
    /\ cb'.total_requests = cb.total_requests

\* C28: the lifetime totals never reset: no step (call, completion, reset)
\* decreases total_requests, total_successes, total_failures or
\* total_rejected; reset() leaves all four as they are; every call()
\* increases total_requests by exactly one, so that total_requests is the
\* number of calls succeeded, failed, rejected and still running.
C28_TotalsNeverReset ==
    /\ [](cb.total_requests =
            cb.total_successes + cb.total_failures + cb.total_rejected + cb_inflight)
    /\ [][ /\ \A i \in 1..4 : Totals(cb')[i] >= Totals(cb)[i]
           /\ ResetRuns => Totals(cb') = Totals(cb)
           /\ CallMade => cb'.total_requests = cb.total_requests + 1
           /\ cb'.total_requests <= cb.total_requests + 1 ]_vars

\* the breaker was opened, rejected a call, was reset (next_attempt is
\* cleared by reset() alone) and then served a call: all totals are kept
C28_Witness ==
    /\ cb_opened_at > 0
    /\ cb.next_attempt = 0
    /\ cb.total_failures >= failure_threshold
    /\ cb.total_rejected > 0
    /\ cb.total_successes > 0
    /\ cb.total_requests = cb.total_successes + cb.total_failures + cb.total_rejected

\* C29: reset(), in whichever state it finds the core breaker, leaves it
\* CLOSED with failure_count = 0, success_count = 0 and next_attempt = 0, so
\* the call() that comes next is executed, not rejected; reset_breaker(name)
\* for a name without a breaker returns False and changes nothing, for a
\* name with one it returns True.
C29_ResetForcesClosed ==
    [][ /\ ResetRuns
             => /\ cb'.state = "closed"
                /\ cb'.failure_count = 0
                /\ cb'.success_count = 0
                /\ cb'.next_attempt = 0
        /\ (CallArrives /\ cb.state = "closed" /\ cb.next_attempt = 0)
             => (Started /\ cb'.state = "closed")
        /\ (reset_returned' = "False" /\ reset_returned # "False")
             => <<cb, cb_inflight, cb_streak>>' = <<cb, cb_inflight, cb_streak>>
        /\ (reset_returned' = "True" /\ reset_returned # "True")
             => cb' = reset(cb) ]_vars

\* the breaker opened at some time, was reset before next_attempt had come,
\* and the call that arrived then is running; a reset_breaker for a name
\* without a breaker has returned False since
C29_Witness ==
    /\ cb.state = "closed"
    /\ cb.next_attempt = 0
    /\ cb.failure_count = 0
    /\ cb.total_failures = failure_threshold
    /\ cb.total_rejected = 0
    /\ cb_inflight = 1
    /\ now < cb_opened_at + timeout
    /\ reset_returned = "False"

\* C30: while the core breaker is HALF_OPEN at most one wrapped operation is
\* in flight: a call() that arrives in HALF_OPEN while an operation is still
\* awaited is not started next to it.
C30_OneProbeAtATime ==
    [][ (CallArrives /\ cb.state = "half_open" /\ cb_inflight > 0) => ~ Started ]_vars

(***************************************************************************)
(* Properties of the gateway's sends                                       *)
(***************************************************************************)
\* the gateway breaker is OPEN and its recovery timeout has not elapsed
Blocking == gw.state = "OPEN" /\ ~ gw_recovered(gw, now)

\* a send request, text or template, goes out to the downstream API
PostStarts ==
    \/ gw_inflight' = gw_inflight + 1
    \/ tpl_inflight' = tpl_inflight + 1

\* a text send ends in a non-2xx response
Non2xxArrives == gw_non2xx' = gw_non2xx + 1

\* C34: a text send that ends in a non-2xx response counts as a failure of
\* the gateway breaker: a non-2xx received while the breaker is HALF_OPEN
\* does not close it, and once 5 text sends in a row have ended in a non-2xx
\* response the breaker is OPEN.
C34_Non2xxCountsAsFailure ==
    [][ Non2xxArrives =>
          /\ gw.state = "HALF_OPEN" => gw'.state # "CLOSED"
          /\ gw_non2xx' >= gw_failure_threshold => gw'.state = "OPEN" ]_vars

\* C25: every send to the downstream API, text and template alike, goes
\* through the gateway breaker: while it is OPEN and its recovery timeout
\* has not elapsed, no send request of either kind goes out.
C25_NoSendWhileOpen ==
    [][ Blocking => ~ PostStarts ]_vars

(***************************************************************************)
(* Properties of the gateway's retries                                     *)
(***************************************************************************)
\* nothing of the retries is running or waiting any more
RetriesOver ==
    /\ run.pc = "idle"
    /\ \A n \in 0..task_max_retries : task_queue[n] = 0
    /\ rwb.pc \in {"idle", "returned", "raised"}

IsPrefix(s, t) == Len(s) <= Len(t) /\ \A i \in 1..Len(s) : s[i] = t[i]

\* C26: retries are capped and end.  One send_with_retry call makes at most
\* max_retries + 1 = 4 sends, sleeping 1, 2 and 4 seconds between them, and
\* returns when the fourth has failed; retry_with_backoff invokes its
\* operation at most max_attempts = 3 times and raises only after the
\* third; send_message_task is executed finitely often for one message (at
\* most 15 times), and in the end nothing is running or waiting.
C26_RetriesCapped ==
    /\ [](/\ swr_sends <= max_retries + 1
          /\ swr_sends <= 4
          /\ IsPrefix(swr_delays, <<1, 2, 4>>)
          /\ Len(swr_delays) <= swr_sends
          /\ swr_sends <= Len(swr_delays) + 1
          /\ rwb_calls <= max_attempts
          /\ rwb_calls <= 3
          /\ (rwb.pc = "raised" => rwb_calls = max_attempts)
          /\ task_runs <= 15)
    /\ [][ (swr_sends = max_retries /\ swr_sends' = max_retries + 1) => run'.pc = "idle" ]_vars
    /\ <>[]RetriesOver

\* the downstream API failed every time: fifteen executions of the task,
\* the last with four sends and the sleeps 1, 2, 4, and a retry_with_backoff
\* that raised after three invocations
C26_Witness ==
    /\ RetriesOver
    /\ msg_type = "text"
    /\ task_runs = 15
    /\ swr_sends = 4
    /\ swr_delays = <<1, 2, 4>>
    /\ swr_result = "failure"
    /\ rwb.pc = "raised"
    /\ rwb_calls = 3

\* C40: in every reachable state of the core breaker, with overlapping
\* calls in flight and reset() at any time: CLOSED implies failure_count <
\* failure_threshold; success_count > 0 implies HALF_OPEN; and success_count
\* < success_threshold.
C40_CounterInvariants ==
    /\ cb.state = "closed" => cb.failure_count < failure_threshold
    /\ cb.success_count > 0 => cb.state = "half_open"
    /\ cb.success_count < success_threshold

\* HALF_OPEN with one success counted, one short of closing, while another
\* call is still in flight and failure_count is at the threshold
C40_Witness ==
    /\ cb.state = "half_open"
    /\ cb.success_count = success_threshold - 1
    /\ cb.success_count > 0
    /\ cb_inflight > 0
    /\ cb.failure_count >= failure_threshold

\* C37: whenever the static fallback reports the proposed time as
\* restricted, the next_available_time it returns is later than the
\* proposed time, lies on the hour, and is a time the fallback reports as
\* not restricted (its hour is none of 5, 12, 15, 18, 19).
C37_FallbackNextIsSafe ==
    (Calculated /\ calc.answer.source = "fallback" /\ calc.answer.is_prayer_time)
      => /\ calc.answer.next_available_time > Proposed(calc)
         /\ calc.answer.next_available_time % MinutesPerHour = 0
         /\ Hour(calc.answer.next_available_time) \notin {5, 12, 15, 18, 19}

\* the request to the prayer API ends in this step with a status other
\* than 200
NonOkResponse == rv.pc = "fetching" /\ rv'.pc = "idle" /\ api_status' = "other"

\* C38: a response of the prayer API with a status other than 200 is
\* handled as a failed call: the breaker records a failure, nothing is put
\* into the cache, and the answer is the fallback table's with source
\* 'fallback'.
C38_NonOkIsFailure ==
    [][ NonOkResponse
          => /\ cb'.total_failures = cb.total_failures + 1
             /\ cb'.total_successes = cb.total_successes
             /\ prayer_cache' = prayer_cache
             /\ TableSays(calc'.answer, Proposed(calc')) ]_vars

\* _cache_prayer_times sets the entry of key k in this step
Cached(k) ==
    /\ k \in DOMAIN prayer_cache'
    /\ k \notin DOMAIN prayer_cache \/ prayer_cache'[k] # prayer_cache[k]

\* the entries after the assignment of key k, before any eviction
WithEntry(k) ==
    [j \in DOMAIN prayer_cache \cup {k} |->
        IF j = k THEN prayer_cache'[k] ELSE prayer_cache[j]]

\* C33: the prayer-time cache never holds more than 100 entries once an
\* insert has completed: an insert that brings it to 101 entries evicts
\* exactly one entry, one whose expiry is the soonest, an insert that does
\* not evicts none; and a lookup returns an entry's data only if its expiry
\* has not passed.
C33_CacheBounded ==
    /\ [](Cardinality(DOMAIN prayer_cache) <= 100)
    /\ [][ \A k \in CacheDates :
             Cached(k) =>
               /\ prayer_cache'[k].expires = now + _cache_ttl
               /\ IF Cardinality(DOMAIN WithEntry(k)) = 101
                  THEN \E v \in DOMAIN WithEntry(k) :
                          /\ \A j \in DOMAIN WithEntry(k) :
                                WithEntry(k)[v].expires <= WithEntry(k)[j].expires
                          /\ prayer_cache' = [j \in DOMAIN WithEntry(k) \ {v} |-> WithEntry(k)[j]]
                  ELSE prayer_cache' = WithEntry(k) ]_vars
    /\ [][ (cache_got' # cache_got /\ cache_got'.returned)
             => /\ cache_got'.key \in DOMAIN prayer_cache
                /\ cache_got'.expires = prayer_cache[cache_got'.key].expires
                /\ cache_got'.expires > now ]_vars
    /\ [](cache_got.returned => cache_got.expires > now - _cache_ttl)

\* the cache is full after three evictions, which took the entries of the
\* dates 1, 2 and 3, the soonest to expire (that of date 0 had been looked
\* up after its expiry and cached again); the last lookup, of date 0,
\* returned it
C33_Witness ==
    /\ Cardinality(DOMAIN prayer_cache) = 100
    /\ 0 \in DOMAIN prayer_cache
    /\ \A d \in {1, 2, 3} : d \notin DOMAIN prayer_cache
    /\ 4 \in DOMAIN prayer_cache
    /\ prayer_cache[4].expires < prayer_cache[0].expires
    /\ MaxCacheDate \in DOMAIN prayer_cache
    /\ cache_got = [key |-> 0, expires |-> prayer_cache[0].expires, returned |-> TRUE]

\* the time left in the current window bucket, in 1/Resolution s
RemainingInBucket ==
    Resolution * window_seconds - ((Resolution * now + rl_sub) % (Resolution * window_seconds))

\* C31: an identifier whose business count stands at the business quota is
\* denied by the next check (the store answering), and the wait the send is
\* given is the time that is left of the current window bucket.
C31_RetryAfterIsRemaining ==
    [][ \A i \in Identifiers, p \in Senders :
          (/\ Count(rl_store, CurrentKey(i, "business")) = business_rate_limit
           /\ Incremented(i, "business")
           /\ sender'[p] # sender[p])
            => /\ rl_result'.allowed = FALSE
               /\ sender'[p].pc = "sleeping"
               /\ Resolution * (sender'[p].wake - now) = RemainingInBucket ]_vars

Executes(w) == checker[w].pc = "idle" /\ checker'[w].pc = "executed"

RECURSIVE SumAdmitted(_, _)
\* the calls allowed at the seconds of the set ts
SumAdmitted(admitted, ts) ==
    IF ts = {} THEN 0
    ELSE LET t == CHOOSE x \in ts : TRUE
         IN  admitted[t] + SumAdmitted(admitted, ts \ {t})

\* the calls allowed in the span of win seconds that ends with second t
AdmittedWithin(t, win) ==
    SumAdmitted(core_admitted, {u \in DOMAIN core_admitted : t - win < u /\ u <= t})

\* C36: the core-api limiter (its store answering) allows a client at most
\* `requests` calls to an endpoint pattern within any span of `window`
\* seconds and at most `burst` within any span of `burst_window` seconds,
\* calls arriving within the same second counted one each.
C36_WindowCap ==
    core_errors = 0
      => \A t \in DOMAIN core_admitted :
            /\ AdmittedWithin(t, window) <= requests
            /\ AdmittedWithin(t, burst_window) <= burst

\* a core-api check_rate_limit is made in this step
CoreChecked == core_calls' = core_calls + 1

\* a gateway check_rate_limit whose pipeline raised is made in this step
GatewayRaised == rl_errors' = rl_errors + 1

AiChecked == ai_calls' = ai_calls + 1

\* the client is blocked at the current time
AiBlocked == ai_client.window_start # None /\ ai_client.blocked_until > now

\* C32: in the ai-processor limiter a request of a client that is not
\* blocked and has reached the endpoint's quota within the window is
\* rejected and sets blocked_until to now + max(time left of the window,
\* 60 s); while blocked_until has not passed every request is rejected and
\* leaves the count and the window start as they are; the first request
\* after blocked_until has passed is admitted from a count of zero.
C32_HardBlock ==
    [][ \A path \in AiPaths :
          (AiChecked /\ ai_result'.path = path /\ ai_client.window_start # None)
            => /\ (/\ ~ AiBlocked
                   /\ now - ai_client.window_start < ai_window
                   /\ ai_client.requests >= max_requests(path))
                    => /\ ~ ai_result'.admitted
                       /\ ai_client'.blocked_until
                            = now + Max(ai_window - (now - ai_client.window_start), 60)
                       /\ ai_client'.requests = ai_client.requests
                       /\ ai_client'.window_start = ai_client.window_start
               /\ AiBlocked
                    => /\ ~ ai_result'.admitted
                       /\ ai_client' = ai_client
               /\ (ai_client.blocked_until > 0 /\ ~ AiBlocked)
                    => /\ ai_result'.admitted
                       /\ ai_client' = [requests |-> 1, window_start |-> now,
                                        blocked_until |-> 0] ]_vars

\* the client was blocked at the quota of /api/models and rejected until
\* the block had passed; the request after that was admitted as the first
\* of a new window
C32_Witness ==
    /\ ai_result = AiResult("/api/models", TRUE, 0, ai_result.found_block)
    /\ ai_result.found_block > 0
    /\ ai_result.found_block <= now
    /\ ai_client = [requests |-> 1, window_start |-> now, blocked_until |-> 0]
    /\ ai_calls >= max_requests("/api/models") + 3

====
